---- MODULE Spec2Model ----
(***************************************************************************)
(* Resilience layer of the travel assistant: client-side throttling and    *)
(* retry/backoff of sendMessage (src/lib/api.ts), geocodeLocation          *)
(* (src/lib/geocoding.ts) and the chat route's fetchWithRetry              *)
(* (src/unnamed/part_001), and the cooldown logic of Home.handleSendMessage*)
(* (src/app/page.tsx).                                                     *)
(*                                                                         *)
(* Time is the value of Date.now() in milliseconds.  A JavaScript function *)
(* runs without interruption between two awaits, so one action is the code *)
(* run between two awaits of one call.  A timer (setTimeout) fires when    *)
(* the clock reaches its deadline: the clock never steps over a deadline.  *)
(* Strings are modelled by the set of phrases they contain, which is what  *)
(* String.includes reads of them.                                          *)
(***************************************************************************)
EXTENDS Integers, Sequences, FiniteSets, TLC

\* ------------------------------------------------------------ constants
\* src/lib/api.ts
MIN_REQUEST_INTERVAL == 2000
MAX_RETRIES == 2
INITIAL_RETRY_DELAY == 2000
\* src/lib/geocoding.ts
GEO_MIN_REQUEST_INTERVAL == 2000
GEO_MAX_RETRIES == 2
GEO_INITIAL_RETRY_DELAY == 2000
\* chat route (src/unnamed/part_001)
ROUTE_MAX_RETRIES == 3
ROUTE_INITIAL_RETRY_DELAY == 1000
MAX_RETRY_DELAY == 10000
MIN_OPENAI_REQUEST_INTERVAL == 1000
\* geocode route (src/app/api/geocode/route.ts)
GEOROUTE_MIN_REQUEST_INTERVAL == 1000
GEOROUTE_MAX_RETRIES == 2
\* src/app/page.tsx: the delay of both cooldown timers
COOLDOWN == 60000

\* --------------------------------------------------------------- bounds
\* No new top-level call starts at or after MaxTime (calls under way finish).
MaxTime == 5000
\* The clock's step: the smallest interval of the program.
Quantum == MIN_OPENAI_REQUEST_INTERVAL
\* Date.now() when the page loads: any value at least one interval after 0,
\* the initial value of the lastRequestTime variables.
StartTime == MIN_REQUEST_INTERVAL
\* The concurrent callers of the exported functions.
Callers == {"c1", "c2"}

Fns == {"sendMessage", "geocodeLocation", "fetchWithRetry"}
\* No deadline / no fetch yet: a value below every time.
NoTimer == 0 - 1
Never == 0 - 1

Min(a, b) == IF a < b THEN a ELSE b

\* ------------------------------------------------------------- strings
\* error.message.includes("429") || includes("Too Many Requests") || includes("rate limit")
IsRateLimitError(message) ==
    \/ "429" \in message
    \/ "Too Many Requests" \in message
    \/ "rate limit" \in message

\* `${response.status}` inside an error message
StatusText(status) ==
    CASE status = 429 -> "429"
      [] status = 400 -> "400"
      [] status = 500 -> "500"
      [] OTHER -> "200"

\* The three fixed replies of sendMessage
SERVICE_OVERLOADED ==
    {"Je suis desole", "surcharge", "reessayer dans quelques instants"}
TRANSIENT_ERROR ==
    {"Je suis desole", "une erreur s'est produite", "reessayer dans quelques instants"}
MALFORMED_RESPONSE ==
    {"Je suis desole", "une erreur s'est produite lors du traitement de la reponse"}

\* Replies the chat route can put in a 200 body
ROUTE_TOO_MANY == {"Je suis desole", "trop de demandes", "reessayer dans quelques instants"}
ROUTE_DIFFICULTIES == {"Je suis desole", "difficultes", "reessayer dans quelques instants"}
ROUTE_UNREADABLE == {"Je suis desole", "reponse que je ne peux pas interpreter"}
GENUINE_REPLY == {"Paris est une belle ville"}
EMPTY_REPLY == {}

UpstreamReplies ==
    {GENUINE_REPLY, ROUTE_TOO_MANY, ROUTE_DIFFICULTIES, ROUTE_UNREADABLE, EMPTY_REPLY}
\* The replies drawn for one fetch of sendMessage
FetchedReplies == {GENUINE_REPLY, ROUTE_TOO_MANY, EMPTY_REPLY}

\* ----------------------------------------------------------- responses
\* What one fetch can end with.  status 0: the fetch promise rejects
\* (network failure) with an Error of message `text`.
\* body: "unparseable" (response.json() throws), "json" (an object).
\* text: the phrases of data.reply / errorData.error; hasText: the field is
\* present and truthy (error) or of type string (reply).
ChatResponses ==
    {[status |-> 0, body |-> "none", hasText |-> TRUE, text |-> {"Failed to fetch"}]}
    \cup {[status |-> s, body |-> "unparseable", hasText |-> FALSE, text |-> {}] :
             s \in {200, 400, 429, 500}}
    \cup {[status |-> s, body |-> "json", hasText |-> FALSE, text |-> {}] :
             s \in {200, 400, 429, 500}}
    \cup {[status |-> s, body |-> "json", hasText |-> TRUE, text |-> t] :
             s \in {400, 429, 500},
             t \in {{"Quota exceeded"}, {"rate limit"}}}
    \cup {[status |-> 200, body |-> "json", hasText |-> TRUE, text |-> t] :
             t \in FetchedReplies}

\* What is kept of the response that ended a call.
Digest(resp) ==
    [status |-> resp.status,
     wellFormed |-> (resp.status = 200 /\ resp.body = "json" /\ resp.hasText),
     reply |-> IF resp.status = 200 /\ resp.body = "json" /\ resp.hasText
               THEN resp.text ELSE {}]
NoDigest == [status |-> 0 - 1, wellFormed |-> FALSE, reply |-> {}]
NoStatus == 0 - 1

VARIABLES
    now,              \* Date.now()
    fn,               \* the function under study: its callers share its module state
    lastRequestTime,  \* the module variable lastRequestTime of that function's file
                      \* (lastOpenAIRequestTime for fetchWithRetry)
    pc,               \* where each caller is: idle, throttle, fetch, backoff, done
    retries,          \* parameter `retries` of the current (recursive) call
    delay,            \* parameter `delay` of the current (recursive) call
    timer,            \* deadline of the setTimeout the caller awaits
    result,           \* what the top-level call returned or threw
    attempts,         \* fetches dispatched by the top-level call so far
    waits,            \* backoff delays waited by the top-level call so far
    lastResp,         \* the response that ended the top-level call
    only429,          \* every earlier response of this call was a 429
    fetchAt,          \* time of the latest fetch to the endpoint
    minGap,           \* smallest time seen between two fetches to the endpoint
    backoffFrom       \* the status of the response whose retry delay the caller
                      \* awaits (NoStatus when it awaits none)

\* The page (Home, src/app/page.tsx)
VARIABLES
    hpc,                  \* where handleSendMessage is: idle, geo1, chat, geo2
    isMapRateLimited,     \* React state
    isChatRateLimited,    \* React state
    capMap,               \* isMapRateLimited as the running handler's closure holds it
    capChat,              \* isChatRateLimited as the running handler's closure holds it
    rateLimitTimer,       \* deadline of rateLimitTimerRef's pending timeout
    chatRateLimitTimer,   \* deadline of chatRateLimitTimerRef's pending timeout
    consecutiveErrors,    \* consecutiveErrorsRef.current
    geocodingErrors,      \* geocodingErrorsRef.current
    detectedLocation,     \* the handler's local: a location was found in the input
    reply,                \* response.reply of the turn's sendMessage call
    answer,               \* the assistant message the turn appended
    error,                \* React state `error`
    geoOutcome,           \* how the latest detectAndGeocodeLocation call ended
    mapOpenedAt,          \* time of the latest setMapRateLimitWithCooldown(true)
    chatOpenedAt,         \* time of the latest setChatRateLimitWithCooldown(true)
    chatReplyAt,          \* time the latest sendMessage call returned
    signalRun,            \* rate-limit signals in a row among sendMessage's replies (up to 2)
    startedChatOpen,      \* the turn started less than COOLDOWN after chatOpenedAt
    chatCalled,           \* the turn has called sendMessage
    geoCallInWindow,      \* detectAndGeocodeLocation was called less than COOLDOWN
                          \* after mapOpenedAt
    chatProbe,            \* the chat cooldown has expired and sendMessage has not
                          \* returned since
    turnMessages,         \* the roles of the messages that the current turn of
                          \* handleSendMessage, or the latest one, has appended
    isLoading,            \* React state
    isInputDisabled,      \* React state
    turns,                \* the calls of handleSendMessage in progress (up to 2)
    mounted               \* Home is mounted

callVars == <<fn, lastRequestTime, pc, retries, delay, timer, result,
              attempts, waits, lastResp, only429, fetchAt, minGap, backoffFrom>>
homeVars == <<hpc, isMapRateLimited, isChatRateLimited, capMap, capChat,
              rateLimitTimer, chatRateLimitTimer, consecutiveErrors,
              geocodingErrors, detectedLocation, reply, answer, error,
              geoOutcome, mapOpenedAt, chatOpenedAt, chatReplyAt, signalRun,
              startedChatOpen, chatCalled, geoCallInWindow, chatProbe,
              turnMessages, isLoading, isInputDisabled, turns, mounted>>
inputVars == <<isLoading, isInputDisabled, turns>>

\* detectAndGeocodeLocation (src/lib/geocoding.ts), one call of it
VARIABLES
    dText,        \* the argument `text`: its words, each a sequence of characters
    dpc,          \* where the call is: idle, start, query, fetch, done
    dQueue,       \* the names still to pass to geocodeLocation, the full text last
    dRetries,     \* parameter `retries` of the running geocodeLocation call
    dRequests,    \* fetches to /api/geocode issued by the call so far
    dResult,      \* what the call returned or threw
    dRateLimited, \* a response so far said rate limiting (status 429, or the
                  \* words Too Many Requests in its body)
    dThrown,      \* a geocodeLocation call of this pipeline has thrown
    dLastInvalid, \* the latest response came of a result with out-of-range coordinates
    dLastAct      \* what geocodeLocation did on the latest response

detVars == <<dText, dpc, dQueue, dRetries, dRequests, dResult, dRateLimited,
             dThrown, dLastInvalid, dLastAct>>

\* The map panel: Home.useMapFallback, Map (src/app/page.tsx) and MapFallback
\* (src/components/map-fallback.tsx)
VARIABLES
    useMapFallback,   \* React state of Home: MapFallback is mounted, not Map
    currentLocation,  \* React state of Home: the location's coordinates
    healthy,          \* the services answer well while this location is shown
    locationsSet,     \* number of setCurrentLocation calls so far
    scriptStatus,     \* useScript: loading, ready, error
    staticFetch,      \* invocations of Map.generateStaticMap asleep or awaiting /api/static-map
    authFetch,        \* invocations of Map.initializeMap asleep or awaiting /api/map-auth
    mapInstance,      \* mapInstanceRef.current holds a live map
    imageError,       \* React state of MapFallback
    mapUrl,           \* React state of MapFallback: "", "azure" or "osm"
    fallbackFetch,    \* ids of the locations MapFallback.fetchMapUrl awaits /api/static-map for
    liveCreated,      \* a live map was created for the current location
    staticRequests,   \* requests to /api/static-map for the current location
    firstPartyFailed, \* the first-party static image failed for the current location
    thirdPartyFailed, \* the third-party static image failed for the current location
    lastRequestTimeRef, \* lastRequestTimeRef.current of Map
    mapUrlFor,        \* id of the location mapUrl was built for
    onErrorSite,      \* the place in Map that called onError(), "none" before
    fallbackFailed,   \* ids of the locations MapFallback's request failed for
    staticAt,         \* time of the latest request to /api/static-map
    staticGap         \* smallest time seen between two requests to /api/static-map

mapVars == <<useMapFallback, currentLocation, healthy, locationsSet, scriptStatus,
             staticFetch, authFetch, mapInstance, imageError, mapUrl,
             fallbackFetch, liveCreated, staticRequests, firstPartyFailed,
             thirdPartyFailed, lastRequestTimeRef, mapUrlFor, onErrorSite,
             fallbackFailed, staticAt, staticGap>>

\* The chat route's POST (src/unnamed/part_001), one request
VARIABLES
    history,       \* the request's messages: their roles
    bodyParses,    \* request.json() gives the messages
    configured,    \* the three environment variables are set
    ppc,           \* where POST is: idle, received, upstream, answered
    recentMessages,\* the roles of the messages sent upstream
    postStatus,    \* the HTTP status of the answer
    postReply,     \* the answer's reply: its phrases
    postHasReply   \* the answer's body holds a string reply

postVars == <<history, bodyParses, configured, ppc, recentMessages, postStatus,
              postReply, postHasReply>>

\* One call of geocodeLocation followed through the geocode route
\* (src/lib/geocoding.ts, src/app/api/geocode/route.ts)
VARIABLES
    gpc,            \* where the call is: idle, post (a request has reached the
                    \* route), upstream (the route awaits its fetch), answered
                    \* (the route has answered), done
    gRetries,       \* parameter `retries` of the current geocodeLocation call
    gRequests,      \* requests to /api/geocode made by the top-level call
    gRouteRetries,  \* parameter `retries` of the route's makeRequestWithRetry
    gRouteAttempts, \* upstream fetches made for the current request
    gUpstream,      \* upstream fetches made for the top-level call
    gAnswer         \* the route's latest answer

chainVars == <<gpc, gRetries, gRequests, gRouteRetries, gRouteAttempts, gUpstream,
               gAnswer>>
extVars == <<detVars, mapVars, postVars, chainVars>>
vars == <<now, callVars, homeVars, extVars>>

\* --------------------------------------------------- parameters per function
MinInterval(f) ==
    CASE f = "sendMessage" -> MIN_REQUEST_INTERVAL
      [] f = "geocodeLocation" -> GEO_MIN_REQUEST_INTERVAL
      [] f = "makeRequestWithRetry" -> GEOROUTE_MIN_REQUEST_INTERVAL
      [] OTHER -> MIN_OPENAI_REQUEST_INTERVAL

MaxRetries(f) ==
    CASE f = "sendMessage" -> MAX_RETRIES
      [] f = "geocodeLocation" -> GEO_MAX_RETRIES
      [] f = "makeRequestWithRetry" -> GEOROUTE_MAX_RETRIES
      [] OTHER -> ROUTE_MAX_RETRIES

InitialDelay(f) ==
    CASE f = "sendMessage" -> INITIAL_RETRY_DELAY
      [] f = "geocodeLocation" -> GEO_INITIAL_RETRY_DELAY
      [] f = "makeRequestWithRetry" -> GEOROUTE_MIN_REQUEST_INTERVAL * 2
      [] OTHER -> ROUTE_INITIAL_RETRY_DELAY

\* The delay argument of the recursive call: delay * 2 in api.ts and
\* geocoding.ts, Math.min(delay * 2, MAX_RETRY_DELAY) in the chat route; the
\* geocode route waits MIN_REQUEST_INTERVAL * 2 before every retry.
NextDelayNoDoubling(f, d) == d
NextDelay(f, d) ==
    IF f = "fetchWithRetry" THEN Min(d * 2, MAX_RETRY_DELAY)
    ELSE IF f = "makeRequestWithRetry" THEN d
    ELSE d * 2

\* The retries argument of the recursive call.
NextRetriesKept(r) == r
NextRetries(r) == r - 1

\* response.ok
Ok(status) == status >= 200 /\ status <= 299

\* ------------------------------------------------------------- outcomes
\* What the code run on one response ends with: a recursive call after the
\* backoff ("retry"), a value ("return") or an exception ("throw").
NullLocation == [name |-> "null", coordinates |-> <<0, 0>>]
Outcome(act, rep, err, loc, st) ==
    [act |-> act, reply |-> rep, error |-> err, location |-> loc, status |-> st]
Retry == Outcome("retry", {}, {}, NullLocation, 0)
ReturnReply(rep) == Outcome("return", rep, {}, NullLocation, 0)
ReturnLocation(loc) == Outcome("return", {}, {}, loc, 0)
ReturnResponse(st) == Outcome("return", {}, {}, NullLocation, st)
Throw(err) == Outcome("throw", {}, err, NullLocation, 0)
NoResult == Outcome("none", {}, {}, NullLocation, 0)

\* ---------------------------------------------------------- sendMessage
\* The message of the Error thrown for a non-OK response: errorData.error
\* when the body is JSON with a truthy error field; otherwise the default
\* (response.text() fails on the body response.json() has consumed).
SendMessageErrorMessage(resp) ==
    IF resp.body = "json" /\ resp.hasText
    THEN resp.text
    ELSE {"HTTP error! status:", StatusText(resp.status)}

\* The try block, from the fetch on.
SendMessageTryFalsyReply(resp, r) ==
    IF resp.status = 0 THEN Throw(resp.text)
    ELSE IF resp.status = 429 /\ r > 0 THEN Retry
    ELSE IF ~Ok(resp.status) THEN Throw(SendMessageErrorMessage(resp))
    ELSE IF resp.body = "unparseable" THEN ReturnReply(MALFORMED_RESPONSE)
    ELSE IF ~resp.hasText \/ resp.text = {} THEN ReturnReply(MALFORMED_RESPONSE)
    ELSE ReturnReply(resp.text)
SendMessageTry(resp, r) ==
    IF resp.status = 0 THEN Throw(resp.text)
    ELSE IF resp.status = 429 /\ r > 0 THEN Retry
    ELSE IF ~Ok(resp.status) THEN Throw(SendMessageErrorMessage(resp))
    ELSE IF resp.body = "unparseable" THEN ReturnReply(MALFORMED_RESPONSE)
    ELSE IF ~resp.hasText THEN ReturnReply(MALFORMED_RESPONSE)
    ELSE ReturnReply(resp.text)

\* The catch block.
SendMessageCatchRethrow(err, r) ==
    IF IsRateLimitError(err)
    THEN IF r > 0 THEN Retry ELSE Throw(err)
    ELSE ReturnReply(TRANSIENT_ERROR)
SendMessageCatch(err, r) ==
    IF IsRateLimitError(err)
    THEN IF r > 0 THEN Retry ELSE ReturnReply(SERVICE_OVERLOADED)
    ELSE ReturnReply(TRANSIENT_ERROR)

SendMessageOutcome(resp, r) ==
    LET t == SendMessageTry(resp, r)
    IN  IF t.act = "throw" THEN SendMessageCatch(t.error, r) ELSE t

\* ------------------------------------------------------ geocodeLocation
\* function validateCoordinates (NaN is modelled by absent coordinates)
validateCoordinates(lon, lat) ==
    lon >= -180 /\ lon <= 180 /\ lat >= -90 /\ lat <= 90

\* responseData of a parsed body
NoData == [hasLocation |-> FALSE, hasCoords |-> FALSE, coordinates |-> <<0, 0>>]
\* No answer of the geocode route yet.
NoAnswer ==
    [status |-> 0 - 1, ctype |-> "none", body |-> "none", marker |-> FALSE,
     data |-> NoData, errorText |-> {}]
GeoData ==
    {NoData,
     [hasLocation |-> TRUE, hasCoords |-> FALSE, coordinates |-> <<0, 0>>],
     [hasLocation |-> TRUE, hasCoords |-> TRUE, coordinates |-> <<2, 48>>],
     [hasLocation |-> TRUE, hasCoords |-> TRUE, coordinates |-> <<200, 48>>],
     [hasLocation |-> TRUE, hasCoords |-> TRUE, coordinates |-> <<2, -95>>]}

\* ctype: the content-type header is application/json ("json") or not ("text").
\* body: "data" (the body parses as JSON) or "unparseable".
\* marker: the body text holds "Too Many Requests" (for an unparseable body
\* read by response.json(): the parse error's message quotes it).
\* errorText: the other phrases of the error field of a JSON body.
GeocodeResponses ==
    {[status |-> 0, ctype |-> "none", body |-> "none", marker |-> FALSE, data |-> NoData, errorText |-> {}]}
    \cup {[status |-> s, ctype |-> c, body |-> b, marker |-> m, data |-> NoData, errorText |-> {}] :
             s \in {400, 429, 500}, c \in {"json", "text"},
             b \in {"unparseable", "data"}, m \in BOOLEAN}
    \cup {[status |-> 200, ctype |-> c, body |-> "unparseable", marker |-> m, data |-> NoData, errorText |-> {}] :
             c \in {"json", "text"}, m \in BOOLEAN}
    \cup {[status |-> 200, ctype |-> c, body |-> "data", marker |-> FALSE, data |-> d, errorText |-> {}] :
             c \in {"json", "text"}, d \in GeoData}
    \cup {[status |-> 200, ctype |-> "text", body |-> "data", marker |-> TRUE, data |-> d, errorText |-> {}] :
             d \in GeoData}

TOO_MANY_REQUESTS == {"Too Many Requests", "Service temporarily unavailable"}
BodyPhrases(resp) ==
    (IF resp.marker THEN {"Too Many Requests"} ELSE {}) \cup resp.errorText

\* `Geocoding API error: ${status}`, with the body's text or JSON appended
\* when it can be read.
GeocodeErrorMessage(resp) ==
    {"Geocoding API error", StatusText(resp.status)}
    \cup (IF resp.ctype = "text" \/ resp.body = "data" THEN BodyPhrases(resp) ELSE {})

\* Lines 153-171: the location of a parsed body, or null.
GeocodeValidate(data) ==
    IF data.hasLocation
    THEN IF data.hasCoords
         THEN IF validateCoordinates(data.coordinates[1], data.coordinates[2])
              THEN ReturnLocation([name |-> "remote", coordinates |-> data.coordinates])
              ELSE ReturnLocation(NullLocation)
         ELSE ReturnLocation(NullLocation)
    ELSE ReturnLocation(NullLocation)

\* Lines 98-151: reading a 2xx body.
GeocodeParse(resp) ==
    IF resp.ctype # "json"
    THEN IF resp.marker THEN Throw(TOO_MANY_REQUESTS)
         ELSE IF resp.body = "data" THEN GeocodeValidate(resp.data)
         ELSE Throw({"Failed to read response"})
    ELSE IF resp.body = "data" THEN GeocodeValidate(resp.data)
         ELSE Throw({"Unexpected token"} \cup BodyPhrases(resp))

\* The try block, from the fetch on.
GeocodeTry(resp, r) ==
    IF resp.status = 0 THEN Throw({"Failed to fetch"})
    ELSE IF resp.status = 429
         THEN IF r > 0 THEN Retry ELSE Throw(TOO_MANY_REQUESTS)
    ELSE IF ~Ok(resp.status)
         THEN IF r > 0 /\ resp.status >= 500 THEN Retry
              ELSE Throw(GeocodeErrorMessage(resp))
    ELSE GeocodeParse(resp)

\* The catch block.
GeocodeCatch(err, r) ==
    IF IsRateLimitError(err) THEN Throw(err)
    ELSE IF r > 0 THEN Retry
    ELSE ReturnLocation(NullLocation)

GeocodeOutcome(resp, r) ==
    LET t == GeocodeTry(resp, r)
    IN  IF t.act = "throw" THEN GeocodeCatch(t.error, r) ELSE t

\* ------------------------------------------------------- fetchWithRetry
RouteResponses == {[status |-> s] : s \in {0, 200, 400, 429, 500}}

FetchWithRetryTry(resp, r) ==
    IF resp.status = 0 THEN Throw({"fetch failed"})
    ELSE IF resp.status = 429 /\ r > 0 THEN Retry
    ELSE ReturnResponse(resp.status)

FetchWithRetryCatch(err, r) ==
    IF r > 0 THEN Retry ELSE Throw(err)

FetchWithRetryOutcome(resp, r) ==
    LET t == FetchWithRetryTry(resp, r)
    IN  IF t.act = "throw" THEN FetchWithRetryCatch(t.error, r) ELSE t

\* -------------------------------------------------- throttle and dispatch
\* lastRequestTime = Date.now() followed by the fetch, with no await between.
Dispatch(p, a) ==
    /\ lastRequestTime' = now
    /\ pc' = [pc EXCEPT ![p] = "fetch"]
    /\ timer' = [timer EXCEPT ![p] = NoTimer]
    /\ attempts' = [attempts EXCEPT ![p] = a + 1]
    /\ fetchAt' = now
    /\ minGap' = IF fetchAt = Never THEN minGap ELSE Min(minGap, now - fetchAt)

\* The client-side rate limiting at the start of each (recursive) call: wait
\* MIN_REQUEST_INTERVAL - timeSinceLastRequest when the last request is
\* recent, else go on to the fetch at once.
Acquire(p, a) ==
    LET timeSinceLastRequest == now - lastRequestTime
    IN  IF timeSinceLastRequest < MinInterval(fn)
        THEN /\ pc' = [pc EXCEPT ![p] = "throttle"]
             /\ timer' = [timer EXCEPT ![p] = now + (MinInterval(fn) - timeSinceLastRequest)]
             /\ attempts' = [attempts EXCEPT ![p] = a]
             /\ UNCHANGED <<lastRequestTime, fetchAt, minGap>>
        ELSE Dispatch(p, a)

\* A top-level call by caller p, with the default retries and delay.
Call(p) ==
    /\ pc[p] \in {"idle", "done"}
    /\ now < MaxTime
    /\ retries' = [retries EXCEPT ![p] = MaxRetries(fn)]
    /\ delay' = [delay EXCEPT ![p] = InitialDelay(fn)]
    /\ result' = [result EXCEPT ![p] = NoResult]
    /\ waits' = [waits EXCEPT ![p] = <<>>]
    /\ lastResp' = [lastResp EXCEPT ![p] = NoDigest]
    /\ only429' = [only429 EXCEPT ![p] = TRUE]
    /\ backoffFrom' = [backoffFrom EXCEPT ![p] = NoStatus]
    /\ Acquire(p, 0)
    /\ UNCHANGED <<now, fn, homeVars, extVars>>

CallSendMessage(p) == fn = "sendMessage" /\ Call(p)
CallFetchWithRetry(p) == fn = "fetchWithRetry" /\ Call(p)

\* geocodeLocation of a name that holds no key of the gazetteer.
CallGeocodeLocation(p) == fn = "geocodeLocation" /\ Call(p)

\* geocodeLocation of a name that holds a key of the gazetteer: the
\* predefined location is returned before the rate limiting and the fetch.
CallGeocodePredefined(p) ==
    /\ fn = "geocodeLocation"
    /\ pc[p] \in {"idle", "done"}
    /\ now < MaxTime
    /\ pc' = [pc EXCEPT ![p] = "done"]
    /\ retries' = [retries EXCEPT ![p] = GEO_MAX_RETRIES]
    /\ delay' = [delay EXCEPT ![p] = GEO_INITIAL_RETRY_DELAY]
    /\ result' = [result EXCEPT ![p] =
                     ReturnLocation([name |-> "predefined", coordinates |-> <<2, 48>>])]
    /\ attempts' = [attempts EXCEPT ![p] = 0]
    /\ waits' = [waits EXCEPT ![p] = <<>>]
    /\ lastResp' = [lastResp EXCEPT ![p] = NoDigest]
    /\ only429' = [only429 EXCEPT ![p] = TRUE]
    /\ backoffFrom' = [backoffFrom EXCEPT ![p] = NoStatus]
    /\ UNCHANGED <<now, fn, lastRequestTime, timer, fetchAt, minGap, homeVars, extVars>>

\* The throttle's setTimeout fires: the call stamps lastRequestTime and fetches.
ThrottleWake(p) ==
    /\ pc[p] = "throttle"
    /\ now = timer[p]
    /\ Dispatch(p, attempts[p])
    /\ UNCHANGED <<now, fn, retries, delay, result, waits, lastResp, only429, backoffFrom,
                   homeVars, extVars>>

\* The fetch of caller p ends with resp, and the code up to the next await or
\* to the end of the call runs: `out` is what it ends with.
Settle(p, resp, out) ==
    /\ pc[p] = "fetch"
    /\ IF out.act = "retry"
       THEN /\ pc' = [pc EXCEPT ![p] = "backoff"]
            /\ timer' = [timer EXCEPT ![p] = now + delay[p]]
            /\ waits' = [waits EXCEPT ![p] = Append(@, delay[p])]
            /\ only429' = [only429 EXCEPT ![p] = @ /\ resp.status = 429]
            /\ backoffFrom' = [backoffFrom EXCEPT ![p] = resp.status]
            /\ UNCHANGED <<result, lastResp>>
       ELSE /\ pc' = [pc EXCEPT ![p] = "done"]
            /\ result' = [result EXCEPT ![p] = out]
            /\ lastResp' = [lastResp EXCEPT ![p] = resp]
            /\ UNCHANGED <<timer, waits, only429, backoffFrom>>
    /\ UNCHANGED <<now, fn, lastRequestTime, retries, delay, attempts, fetchAt, minGap,
                   homeVars, extVars>>

SendMessageResponse(p) ==
    /\ fn = "sendMessage"
    /\ \E resp \in ChatResponses :
          Settle(p, Digest(resp), SendMessageOutcome(resp, retries[p]))

GeocodeResponse(p) ==
    /\ fn = "geocodeLocation"
    /\ \E resp \in GeocodeResponses :
          Settle(p, [NoDigest EXCEPT !.status = resp.status],
                 GeocodeOutcome(resp, retries[p]))

FetchWithRetryResponse(p) ==
    /\ fn = "fetchWithRetry"
    /\ \E resp \in RouteResponses :
          Settle(p, [NoDigest EXCEPT !.status = resp.status],
                 FetchWithRetryOutcome(resp, retries[p]))

\* The backoff's setTimeout fires: the function calls itself with
\* retries - 1 and the next delay, which starts with the rate limiting.
BackoffWake(p) ==
    /\ pc[p] = "backoff"
    /\ now = timer[p]
    /\ retries' = [retries EXCEPT ![p] = NextRetries(@)]
    /\ delay' = [delay EXCEPT ![p] = NextDelay(fn, @)]
    /\ Acquire(p, attempts[p])
    /\ backoffFrom' = [backoffFrom EXCEPT ![p] = NoStatus]
    /\ UNCHANGED <<now, fn, result, waits, lastResp, only429, homeVars, extVars>>

\* Time passes, up to the next deadline.
Pending == {p \in Callers : pc[p] \in {"throttle", "backoff"}}
Advance ==
    /\ now < MaxTime \/ Pending # {}
    /\ \A p \in Pending : now + Quantum <= timer[p]
    /\ now' = now + Quantum
    /\ UNCHANGED <<callVars, homeVars, extVars>>

\* No call of detectAndGeocodeLocation under study.
DetectIdle ==
    /\ dText = <<>>
    /\ dpc = "idle"
    /\ dQueue = <<>>
    /\ dRetries = 0
    /\ dRequests = 0
    /\ dResult = NoResult
    /\ dRateLimited = FALSE
    /\ dThrown = FALSE
    /\ dLastInvalid = FALSE
    /\ dLastAct = "none"
\* The map panel as mounted with the default location, nothing under way.
MapIdle ==
    /\ useMapFallback = FALSE
    /\ currentLocation = <<2, 48>>
    /\ healthy = TRUE
    /\ locationsSet = 0
    /\ scriptStatus = "loading"
    /\ staticFetch = {}
    /\ authFetch = {}
    /\ mapInstance = FALSE
    /\ imageError = FALSE
    /\ mapUrl = ""
    /\ fallbackFetch = {}
    /\ liveCreated = FALSE
    /\ staticRequests = 0
    /\ firstPartyFailed = FALSE
    /\ thirdPartyFailed = FALSE
    /\ lastRequestTimeRef = 0
    /\ mapUrlFor = 0
    /\ onErrorSite = "none"
    /\ fallbackFailed = {}
    /\ staticAt = Never
    /\ staticGap = 2000
\* No request to the chat route under study.
PostIdle ==
    /\ history = <<>>
    /\ bodyParses = TRUE
    /\ configured = TRUE
    /\ ppc = "idle"
    /\ recentMessages = <<>>
    /\ postStatus = 0
    /\ postReply = {}
    /\ postHasReply = FALSE
\* No call of geocodeLocation followed through the geocode route.
ChainIdle ==
    /\ gpc = "idle"
    /\ gRetries = 0
    /\ gRequests = 0
    /\ gRouteRetries = 0
    /\ gRouteAttempts = 0
    /\ gUpstream = 0
    /\ gAnswer = NoAnswer

ExtIdle == DetectIdle /\ MapIdle /\ PostIdle /\ ChainIdle

\* The page as mounted (the useState and useRef initial values).
HomeInit ==
    /\ hpc = "idle"
    /\ isMapRateLimited = FALSE
    /\ isChatRateLimited = FALSE
    /\ capMap = FALSE
    /\ capChat = FALSE
    /\ rateLimitTimer = NoTimer
    /\ chatRateLimitTimer = NoTimer
    /\ consecutiveErrors = 0
    /\ geocodingErrors = 0
    /\ detectedLocation = FALSE
    /\ reply = {}
    /\ answer = {}
    /\ error = {}
    /\ geoOutcome = "none"
    /\ mapOpenedAt = Never
    /\ chatOpenedAt = Never
    /\ chatReplyAt = Never
    /\ signalRun = 0
    /\ startedChatOpen = FALSE
    /\ chatCalled = FALSE
    /\ geoCallInWindow = FALSE
    /\ chatProbe = FALSE
    /\ turnMessages = <<>>
    /\ isLoading = FALSE
    /\ isInputDisabled = FALSE
    /\ turns = 0
    /\ mounted = TRUE

Init ==
    /\ now = StartTime
    /\ HomeInit
    /\ ExtIdle
    /\ fn \in Fns
    /\ lastRequestTime = 0
    /\ pc = [p \in Callers |-> "idle"]
    /\ retries = [p \in Callers |-> 0]
    /\ delay = [p \in Callers |-> 0]
    /\ timer = [p \in Callers |-> NoTimer]
    /\ result = [p \in Callers |-> NoResult]
    /\ attempts = [p \in Callers |-> 0]
    /\ waits = [p \in Callers |-> <<>>]
    /\ lastResp = [p \in Callers |-> NoDigest]
    /\ only429 = [p \in Callers |-> TRUE]
    /\ fetchAt = Never
    /\ minGap = MinInterval(fn)
    /\ backoffFrom = [p \in Callers |-> NoStatus]

Next ==
    \/ \E p \in Callers : CallSendMessage(p)
    \/ \E p \in Callers : CallGeocodeLocation(p)
    \/ \E p \in Callers : CallGeocodePredefined(p)
    \/ \E p \in Callers : CallFetchWithRetry(p)
    \/ \E p \in Callers : ThrottleWake(p)
    \/ \E p \in Callers : SendMessageResponse(p)
    \/ \E p \in Callers : GeocodeResponse(p)
    \/ \E p \in Callers : FetchWithRetryResponse(p)
    \/ \E p \in Callers : BackoffWake(p)
    \/ Advance

Spec == Init /\ [][Next]_vars

\* ================================================================ Home
\* The clock's step in the page: a third of the cooldown.
HomeQuantum == COOLDOWN \div 3
\* No turn starts at or after HomeMaxTime (cooldowns under way still expire).
HomeMaxTime == 130000

\* The assistant message of the outer catch block for other errors
GENERIC_ERROR == {"Desole", "une erreur s'est produite", "reessayer dans quelques instants"}
NO_VALID_REPLY == {"No valid reply received from API"}

\* What sendMessage can return (C4): a reply of the route or a fixed string.
SendMessageReplies ==
    UpstreamReplies \cup {SERVICE_OVERLOADED, TRANSIENT_ERROR, MALFORMED_RESPONSE}

\* How detectAndGeocodeLocation ends: a location, null, or a rate-limiting
\* error (the only error it lets through).
GeoOutcomes == {"location", "null", "rateLimited"}

\* handleSendMessage's test that the reply indicates rate limiting
IsRateLimitSignal(rep) ==
    \/ "trop de demandes" \in rep
    \/ "surcharge" \in rep
    \/ "reessayer dans quelques instants" \in rep

\* consecutiveErrorsRef.current after a reply
NextConsecutiveErrorsNoReset(count, signal) ==
    IF signal THEN count + 1 ELSE count
NextConsecutiveErrors(count, signal) ==
    IF signal THEN count + 1 ELSE 0

\* if (consecutiveErrorsRef.current >= 2)
ChatThresholdThree(count) == count >= 3
ChatThresholdReached(count) == count >= 2

\* The deadline setMapRateLimitWithCooldown(true) / setChatRateLimitWithCooldown(true)
\* leaves pending: the existing timer is cleared and a new one set.
CooldownDeadlineKeepOld(old) == IF old # NoTimer THEN old ELSE now + COOLDOWN
CooldownDeadline(old) == now + COOLDOWN

\* setMapRateLimitWithCooldown(true)
SetMapRateLimitWithCooldown ==
    /\ isMapRateLimited' = TRUE
    /\ rateLimitTimer' = CooldownDeadline(rateLimitTimer)
    /\ mapOpenedAt' = now

\* setChatRateLimitWithCooldown(true)
SetChatRateLimitWithCooldown ==
    /\ isChatRateLimited' = TRUE
    /\ chatRateLimitTimer' = CooldownDeadline(chatRateLimitTimer)
    /\ chatOpenedAt' = now

\* now is less than COOLDOWN after opened
InWindow(opened) == opened # Never /\ now < opened + COOLDOWN

\* The end of a detectAndGeocodeLocation call in the handler (lines 135-162
\* and 217-238): the location is shown and the error counter reset, or the
\* map cooldown is opened.
GeocodeEnds(outcome) ==
    /\ geoOutcome' = outcome
    /\ geocodingErrors' = IF outcome = "location" THEN 0 ELSE geocodingErrors
    /\ IF outcome = "rateLimited"
       THEN SetMapRateLimitWithCooldown
       ELSE UNCHANGED <<isMapRateLimited, rateLimitTimer, mapOpenedAt>>

\* setMessages((prev) => [...prev, message])
SetMessagesReplace(prev, role) == <<role>>
SetMessages(prev, role) == Append(prev, role)

\* if (e.key === "Enter" && !isLoading && !isInputDisabled), and the same
\* test in the button's onClick
PressAllowedIgnoringLoading(loading, disabled) == ~disabled
PressAllowed(loading, disabled) == ~loading /\ ~disabled

\* The handler is at `next` with `running` calls in progress: "idle" is its
\* end, where the finally block has run setIsLoading(false).
HandlerAt(next, running) ==
    /\ hpc' = next
    /\ isLoading' = (next # "idle")
    /\ turns' = IF next = "idle" THEN running - 1 ELSE running

\* Lines 168-185, with the closure's isChatRateLimited: the fixed reply and
\* an early return, or the call of sendMessage; prev is what the turn has appended.
ChatStage(closureChat, prev, running) ==
    IF closureChat
    THEN /\ HandlerAt("idle", running)
         /\ answer' = SERVICE_OVERLOADED
         /\ turnMessages' = SetMessages(prev, "assistant")
         /\ chatCalled' = FALSE
    ELSE /\ HandlerAt("chat", running)
         /\ chatCalled' = TRUE
         /\ answer' = {}
         /\ turnMessages' = prev

\* handleSendMessage with a non-blank input, to its first await: the closure
\* holds the flags of the latest render; detectAndGeocodeLocation(input) is
\* called unless the map is rate limited.
StartTurn ==
    /\ mounted
    /\ PressAllowed(isLoading, isInputDisabled)
    /\ now < HomeMaxTime
    /\ isInputDisabled' = TRUE
    /\ capMap' = isMapRateLimited
    /\ capChat' = isChatRateLimited
    /\ error' = {}
    /\ reply' = {}
    /\ detectedLocation' = FALSE
    /\ startedChatOpen' = InWindow(chatOpenedAt)
    /\ IF ~isMapRateLimited
       THEN /\ HandlerAt("geo1", Min(turns + 1, 2))
            /\ geoCallInWindow' = InWindow(mapOpenedAt)
            /\ chatCalled' = FALSE
            /\ answer' = {}
            /\ turnMessages' = SetMessages(<<>>, "user")
       ELSE /\ ChatStage(isChatRateLimited, SetMessages(<<>>, "user"), Min(turns + 1, 2))
            /\ UNCHANGED geoCallInWindow
    /\ UNCHANGED <<now, callVars, extVars, mounted, isMapRateLimited, isChatRateLimited,
                   rateLimitTimer, chatRateLimitTimer, consecutiveErrors,
                   geocodingErrors, geoOutcome, mapOpenedAt, chatOpenedAt,
                   chatReplyAt, signalRun, chatProbe>>

\* detectAndGeocodeLocation(input) ends; the handler runs to the early
\* return or to the call of sendMessage.
InputGeocoded ==
    /\ hpc = "geo1"
    /\ \E outcome \in GeoOutcomes :
          /\ GeocodeEnds(outcome)
          /\ detectedLocation' = (outcome = "location")
    /\ ChatStage(capChat, turnMessages, turns)
    /\ UNCHANGED <<now, callVars, extVars, mounted, isInputDisabled, isChatRateLimited, capMap,
                   capChat,
                   chatRateLimitTimer, consecutiveErrors, reply, error,
                   chatOpenedAt, chatReplyAt, signalRun, startedChatOpen,
                   geoCallInWindow, chatProbe>>

\* sendMessage returns rep; the handler counts the signal, appends the
\* assistant message and calls detectAndGeocodeLocation(response.reply) when
\* no location was found and the closure's isMapRateLimited is false.  An
\* empty reply throws to the outer catch block, which sets `error`.
ChatReplied ==
    /\ hpc = "chat"
    /\ \E rep \in SendMessageReplies :
          LET signal == IsRateLimitSignal(rep)
              count == NextConsecutiveErrors(consecutiveErrors, signal)
          IN  /\ reply' = rep
              /\ consecutiveErrors' = count
              /\ signalRun' = IF signal THEN Min(signalRun + 1, 2) ELSE 0
              /\ IF signal /\ ChatThresholdReached(count)
                 THEN SetChatRateLimitWithCooldown
                 ELSE UNCHANGED <<isChatRateLimited, chatRateLimitTimer, chatOpenedAt>>
              /\ IF rep # {}
                 THEN /\ answer' = rep
                      /\ error' = error
                      /\ IF ~detectedLocation /\ ~capMap
                         THEN /\ HandlerAt("geo2", turns)
                              /\ geoCallInWindow' = InWindow(mapOpenedAt)
                         ELSE /\ HandlerAt("idle", turns)
                              /\ UNCHANGED geoCallInWindow
                 ELSE /\ answer' = GENERIC_ERROR
                      /\ error' = NO_VALID_REPLY
                      /\ HandlerAt("idle", turns)
                      /\ UNCHANGED geoCallInWindow
    /\ turnMessages' = SetMessages(turnMessages, "assistant")
    /\ chatReplyAt' = now
    /\ chatProbe' = FALSE
    /\ UNCHANGED <<now, callVars, extVars, mounted, isInputDisabled, isMapRateLimited, capMap,
                   capChat,
                   rateLimitTimer, geocodingErrors, detectedLocation,
                   geoOutcome, mapOpenedAt, startedChatOpen, chatCalled>>

ReplyGeocodedCountsChatSignal ==
    /\ hpc = "geo2"
    /\ \E outcome \in GeoOutcomes :
          /\ GeocodeEnds(outcome)
          /\ consecutiveErrors' = IF outcome = "rateLimited"
                                  THEN Min(consecutiveErrors + 1, 2)
                                  ELSE consecutiveErrors
    /\ HandlerAt("idle", turns)
    /\ UNCHANGED <<now, callVars, extVars, mounted, isInputDisabled, isChatRateLimited, capMap,
                   capChat,
                   chatRateLimitTimer, detectedLocation,
                   reply, answer, error, chatOpenedAt, chatReplyAt, signalRun,
                   startedChatOpen, chatCalled, geoCallInWindow, chatProbe,
                   turnMessages>>

\* detectAndGeocodeLocation(response.reply) ends, and the turn with it.
ReplyGeocoded ==
    /\ hpc = "geo2"
    /\ \E outcome \in GeoOutcomes : GeocodeEnds(outcome)
    /\ HandlerAt("idle", turns)
    /\ UNCHANGED <<now, callVars, extVars, mounted, isInputDisabled, isChatRateLimited, capMap,
                   capChat,
                   chatRateLimitTimer, consecutiveErrors, detectedLocation,
                   reply, answer, error, chatOpenedAt, chatReplyAt, signalRun,
                   startedChatOpen, chatCalled, geoCallInWindow, chatProbe,
                   turnMessages>>

\* The map cooldown's timeout fires: setIsMapRateLimited(false).
MapCooldownEnds ==
    /\ rateLimitTimer # NoTimer
    /\ now = rateLimitTimer
    /\ isMapRateLimited' = FALSE
    /\ rateLimitTimer' = NoTimer
    /\ UNCHANGED <<now, callVars, extVars, mounted, inputVars, hpc, isChatRateLimited, capMap, capChat,
                   chatRateLimitTimer, consecutiveErrors, geocodingErrors,
                   detectedLocation, reply, answer, error, geoOutcome,
                   mapOpenedAt, chatOpenedAt, chatReplyAt, signalRun,
                   startedChatOpen, chatCalled, geoCallInWindow, chatProbe,
                   turnMessages>>

\* The chat cooldown's timeout fires: setIsChatRateLimited(false).
ChatCooldownEnds ==
    /\ chatRateLimitTimer # NoTimer
    /\ now = chatRateLimitTimer
    /\ isChatRateLimited' = FALSE
    /\ chatRateLimitTimer' = NoTimer
    /\ chatProbe' = TRUE
    /\ UNCHANGED <<now, callVars, extVars, mounted, inputVars, hpc, isMapRateLimited, capMap, capChat,
                   rateLimitTimer, consecutiveErrors, geocodingErrors,
                   detectedLocation, reply, answer, error, geoOutcome,
                   mapOpenedAt, chatOpenedAt, chatReplyAt, signalRun,
                   startedChatOpen, chatCalled, geoCallInWindow, turnMessages>>

\* Time passes in the page, up to the next deadline.
HomeTimers == {rateLimitTimer, chatRateLimitTimer} \ {NoTimer}
HomeAdvance ==
    /\ now < HomeMaxTime \/ HomeTimers # {}
    /\ \A t \in HomeTimers : now + HomeQuantum <= t
    /\ now' = now + HomeQuantum
    /\ UNCHANGED <<callVars, homeVars, extVars>>

\* Enter is pressed with a blank input: handleSendMessage returns at once
\* (line 116) and the input is disabled for 2 seconds.
BlankEnter ==
    /\ mounted
    /\ PressAllowed(isLoading, isInputDisabled)
    /\ now < HomeMaxTime
    /\ isInputDisabled' = TRUE
    /\ UNCHANGED <<now, callVars, extVars, mounted, hpc, isMapRateLimited, isChatRateLimited,
                   capMap, capChat, rateLimitTimer, chatRateLimitTimer,
                   consecutiveErrors, geocodingErrors, detectedLocation, reply,
                   answer, error, geoOutcome, mapOpenedAt, chatOpenedAt,
                   chatReplyAt, signalRun, startedChatOpen, chatCalled,
                   geoCallInWindow, chatProbe, turnMessages, isLoading, turns>>

\* The timeout set with the press fires: setIsInputDisabled(false).  Its
\* delay of 2 seconds is below the clock's step in the page: it fires at
\* any moment after the press.
InputEnabledAgain ==
    /\ isInputDisabled
    /\ isInputDisabled' = FALSE
    /\ UNCHANGED <<now, callVars, extVars, mounted, hpc, isMapRateLimited, isChatRateLimited,
                   capMap, capChat, rateLimitTimer, chatRateLimitTimer,
                   consecutiveErrors, geocodingErrors, detectedLocation, reply,
                   answer, error, geoOutcome, mapOpenedAt, chatOpenedAt,
                   chatReplyAt, signalRun, startedChatOpen, chatCalled,
                   geoCallInWindow, chatProbe, turnMessages, isLoading, turns>>

\* Home is unmounted: the cleanup of the effect of lines 95-107 clears the
\* two cooldown timers and the geocoding error's timer.  The timeout of
\* lines 368 and 380 has no ref and is left pending; calls under way run on.
Unmount ==
    /\ mounted
    /\ mounted' = FALSE
    /\ rateLimitTimer' = NoTimer
    /\ chatRateLimitTimer' = NoTimer
    /\ UNCHANGED <<now, callVars, extVars, hpc, isMapRateLimited, isChatRateLimited,
                   capMap, capChat, consecutiveErrors, geocodingErrors,
                   detectedLocation, reply, answer, error, geoOutcome, mapOpenedAt,
                   chatOpenedAt, chatReplyAt, signalRun, startedChatOpen, chatCalled,
                   geoCallInWindow, chatProbe, turnMessages, isLoading,
                   isInputDisabled, turns>>

HomeNext ==
    \/ StartTurn
    \/ InputGeocoded
    \/ ChatReplied
    \/ ReplyGeocoded
    \/ MapCooldownEnds
    \/ ChatCooldownEnds
    \/ BlankEnter
    \/ InputEnabledAgain
    \/ HomeAdvance

\* The page alone: the functions it calls are taken by what they return.
CallsIdle ==
    /\ fn = "sendMessage"
    /\ lastRequestTime = 0
    /\ pc = [p \in Callers |-> "idle"]
    /\ retries = [p \in Callers |-> 0]
    /\ delay = [p \in Callers |-> 0]
    /\ timer = [p \in Callers |-> NoTimer]
    /\ result = [p \in Callers |-> NoResult]
    /\ attempts = [p \in Callers |-> 0]
    /\ waits = [p \in Callers |-> <<>>]
    /\ lastResp = [p \in Callers |-> NoDigest]
    /\ only429 = [p \in Callers |-> TRUE]
    /\ fetchAt = Never
    /\ minGap = MIN_REQUEST_INTERVAL
    /\ backoffFrom = [p \in Callers |-> NoStatus]

HomePageInit == now = StartTime /\ HomeInit /\ CallsIdle /\ ExtIdle
HomeSpec == HomePageInit /\ [][HomeNext]_vars
\* The page until and after it is unmounted
UnmountSpec == HomePageInit /\ [][HomeNext \/ Unmount]_vars

\* Every pending timer fires and every fetch settles: the event loop runs
\* whatever is ready.
FairSpec == Spec /\ WF_vars(Next)

Active(p) == pc[p] \in {"throttle", "fetch", "backoff"}

\* ------------------------------------------------------------------ C1
\* C1: no two fetches of sendMessage to /api/chat, and no two fetches of
\* geocodeLocation to /api/geocode, are dispatched less than
\* MIN_REQUEST_INTERVAL (2000 ms) apart, also when calls overlap.
C1_ThrottleSpacing ==
    fn \in {"sendMessage", "geocodeLocation"} => minGap >= 2000

\* ------------------------------------------------------------------ C2
\* C2: one top-level call performs at most maxRetries + 1 fetches (3 for
\* sendMessage, 3 for geocodeLocation, 4 for fetchWithRetry), and it
\* terminates: a call under way always reaches its end.
C2_AttemptsWithinLimit ==
    \A p \in Callers :
        attempts[p] <= (IF fn = "fetchWithRetry" THEN 4 ELSE 3)
C2_BoundedAttemptsAndTermination ==
    /\ []C2_AttemptsWithinLimit
    /\ \A p \in Callers : Active(p) ~> pc[p] = "done"
\* A call that used every attempt and ended.
C2_Witness ==
    \E p \in Callers :
        /\ pc[p] = "done"
        /\ attempts[p] = (IF fn = "fetchWithRetry" THEN 4 ELSE 3)

\* ------------------------------------------------------------------ C3
Pow2(n) == IF n <= 0 THEN 1 ELSE IF n = 1 THEN 2 ELSE IF n = 2 THEN 4 ELSE 8
\* C3: the wait before the k-th retry of a call is min(1000 * 2^(k-1), 10000)
\* ms in fetchWithRetry and 2000 * 2^(k-1) ms in sendMessage and
\* geocodeLocation, whatever failure led to the retry.
C3_BackoffDelays ==
    \A p \in Callers : \A k \in 1..Len(waits[p]) :
        waits[p][k] = (IF fn = "fetchWithRetry"
                       THEN Min(1000 * Pow2(k - 1), 10000)
                       ELSE 2000 * Pow2(k - 1))
\* A second retry, one of the two not caused by a 429.
C3_Witness ==
    \E p \in Callers : Len(waits[p]) >= 2 /\ ~only429[p]

\* ------------------------------------------------------------------ C4
\* C4: sendMessage never throws; it ends by returning a reply that is the
\* reply of the response it received or one of the three fixed strings, and
\* every call under way reaches that end.
C4_ReturnsReply ==
    fn = "sendMessage" =>
        \A p \in Callers :
            /\ result[p].act # "throw"
            /\ pc[p] = "done" =>
                  /\ result[p].act = "return"
                  /\ \/ result[p].reply \in
                           {SERVICE_OVERLOADED, TRANSIENT_ERROR, MALFORMED_RESPONSE}
                     \/ lastResp[p].wellFormed /\ result[p].reply = lastResp[p].reply
C4_NeverThrows ==
    /\ []C4_ReturnsReply
    /\ \A p \in Callers : (fn = "sendMessage" /\ Active(p)) ~> pc[p] = "done"
\* A call that ended on a non-OK response after its retries.
C4_Witness ==
    \E p \in Callers :
        /\ fn = "sendMessage" /\ pc[p] = "done" /\ attempts[p] = 3
        /\ lastResp[p].status = 500 /\ result[p].reply = TRANSIENT_ERROR

\* ------------------------------------------------------------------ C5
\* C5: when the first k <= 2 responses are 429 and response k+1 is a
\* well-formed success, sendMessage returns the reply of response k+1 after
\* exactly k+1 fetches.  (Len(waits[p]) is k: one wait per earlier response.)
C5_SuccessAfter429s ==
    \A p \in Callers :
        (fn = "sendMessage" /\ pc[p] = "done" /\ only429[p]
            /\ lastResp[p].wellFormed /\ Len(waits[p]) <= 2)
        => /\ result[p] = ReturnReply(lastResp[p].reply)
           /\ attempts[p] = Len(waits[p]) + 1
\* 429, 429, then a success with an empty reply string.
C5_Witness ==
    \E p \in Callers :
        /\ fn = "sendMessage" /\ pc[p] = "done" /\ only429[p]
        /\ lastResp[p].wellFormed /\ Len(waits[p]) = 2
        /\ result[p].reply = EMPTY_REPLY

\* ------------------------------------------------------------------ C6
\* C6: when every attempt of a sendMessage call is answered 429, the call
\* returns the 'service overloaded' string, whatever the 429 body holds.
C6_ExhaustedIsRateLimited ==
    \A p \in Callers :
        (fn = "sendMessage" /\ pc[p] = "done" /\ only429[p]
            /\ lastResp[p].status = 429)
        => result[p] = ReturnReply(SERVICE_OVERLOADED)

\* ------------------------------------------------------------------ C7
\* C7: once two chat replies in a row are rate-limit signals the chat circuit
\* is open for the 60 s that follow, and a turn started while it is open
\* makes no call to sendMessage and answers 'service overloaded'.
C7_ChatCircuitSuppressesCalls ==
    /\ (signalRun = 2 /\ InWindow(chatReplyAt)) => isChatRateLimited
    /\ startedChatOpen =>
          /\ ~chatCalled
          /\ hpc # "chat"
          /\ hpc = "idle" => answer = SERVICE_OVERLOADED
\* A turn started in the window has ended, after the window closed during it.
C7_Witness ==
    /\ startedChatOpen /\ hpc = "idle" /\ answer = SERVICE_OVERLOADED
    /\ signalRun = 2 /\ ~InWindow(chatReplyAt) /\ geoOutcome = "location"

\* ------------------------------------------------------------------ C8
\* C8: once the map cooldown has been opened, detectAndGeocodeLocation is not
\* called until 60 s have passed, the second resolution of the same turn
\* included.
C8_NoGeocodeCallInCooldown == ~geoCallInWindow

\* ------------------------------------------------------------------ C9
\* C9: a chat reply that is no rate-limit signal resets the counter to 0, and
\* the chat circuit is only ever open after two signals in a row: two signals
\* with such a reply between them do not open it.
C9_SuccessResetsCounter ==
    /\ signalRun = 0 => consecutiveErrors = 0
    /\ isChatRateLimited => signalRun = 2
\* A reply that is no signal arrived after the circuit had been opened
\* (so with the counter at 2 or more), and one signal since.
C9_Witness ==
    /\ chatOpenedAt # Never /\ ~isChatRateLimited
    /\ signalRun = 1 /\ consecutiveErrors = 1 /\ hpc = "idle"

\* ----------------------------------------------------------------- C10
\* C10: a cooldown that is open closes 60 s after the latest signal that
\* opened it (its pending timeout is the one set then); once closed, a turn
\* may call the network again; a rate-limit signal on the probe reopens the
\* cooldown at once, for 60 s from then.
C10_TimerMatchesOpening ==
    /\ isChatRateLimited =>
          chatRateLimitTimer = chatOpenedAt + 60000 /\ now <= chatRateLimitTimer
    /\ isMapRateLimited =>
          rateLimitTimer = mapOpenedAt + 60000 /\ now <= rateLimitTimer
    /\ (hpc = "idle" /\ ~isInputDisabled /\ ~isMapRateLimited /\ now < HomeMaxTime) =>
          ENABLED (StartTurn /\ hpc' = "geo1")
    /\ (hpc = "idle" /\ ~isInputDisabled /\ isMapRateLimited /\ ~isChatRateLimited
            /\ now < HomeMaxTime) =>
          ENABLED (StartTurn /\ hpc' = "chat")
C10_ProbeReopens ==
    /\ (hpc = "chat" /\ hpc' # "chat" /\ chatProbe /\ IsRateLimitSignal(reply'))
          => (isChatRateLimited' /\ chatRateLimitTimer' = now + 60000)
    /\ (hpc \in {"geo1", "geo2"} /\ hpc' # hpc /\ geoOutcome' = "rateLimited")
          => (isMapRateLimited' /\ rateLimitTimer' = now + 60000)
C10_CooldownClosesAndReopens ==
    /\ []C10_TimerMatchesOpening
    /\ [][C10_ProbeReopens]_vars
\* The chat cooldown was reopened by a probe (the counter passed 2) while the
\* map cooldown, opened twice in one turn, runs from its second opening.
C10_Witness ==
    /\ isChatRateLimited /\ consecutiveErrors = 3
    /\ isMapRateLimited /\ geoCallInWindow /\ mapOpenedAt > chatOpenedAt

\* ================================================================
\* detectAndGeocodeLocation and the gazetteer (src/lib/geocoding.ts,
\* src/lib/locations.ts).  A string is the sequence of its characters; a
\* text is given by its words, joined by single spaces.
\* ================================================================
\* String.prototype.toLowerCase / toUpperCase on one character
ToLowerCase(c) ==
    CASE c = "A" -> "a"
      [] c = "B" -> "b"
      [] c = "C" -> "c"
      [] c = "D" -> "d"
      [] c = "E" -> "e"
      [] c = "F" -> "f"
      [] c = "G" -> "g"
      [] c = "H" -> "h"
      [] c = "I" -> "i"
      [] c = "J" -> "j"
      [] c = "K" -> "k"
      [] c = "L" -> "l"
      [] c = "M" -> "m"
      [] c = "N" -> "n"
      [] c = "O" -> "o"
      [] c = "P" -> "p"
      [] c = "Q" -> "q"
      [] c = "R" -> "r"
      [] c = "S" -> "s"
      [] c = "T" -> "t"
      [] c = "U" -> "u"
      [] c = "V" -> "v"
      [] c = "W" -> "w"
      [] c = "X" -> "x"
      [] c = "Y" -> "y"
      [] c = "Z" -> "z"
      [] OTHER -> c
ToUpperCase(c) ==
    CASE c = "a" -> "A"
      [] c = "b" -> "B"
      [] c = "c" -> "C"
      [] c = "d" -> "D"
      [] c = "e" -> "E"
      [] c = "f" -> "F"
      [] c = "g" -> "G"
      [] c = "h" -> "H"
      [] c = "i" -> "I"
      [] c = "j" -> "J"
      [] c = "k" -> "K"
      [] c = "l" -> "L"
      [] c = "m" -> "M"
      [] c = "n" -> "N"
      [] c = "o" -> "O"
      [] c = "p" -> "P"
      [] c = "q" -> "Q"
      [] c = "r" -> "R"
      [] c = "s" -> "S"
      [] c = "t" -> "T"
      [] c = "u" -> "U"
      [] c = "v" -> "V"
      [] c = "w" -> "W"
      [] c = "x" -> "X"
      [] c = "y" -> "Y"
      [] c = "z" -> "Z"
      [] OTHER -> c
LowerCase(str) == [i \in 1..Len(str) |-> ToLowerCase(str[i])]

\* String.prototype.includes / endsWith
Includes(str, sub) ==
    \E i \in 0..(Len(str) - Len(sub)) : SubSeq(str, i + 1, i + Len(sub)) = sub
EndsWith(str, sub) ==
    Len(str) >= Len(sub) /\ SubSeq(str, Len(str) - Len(sub) + 1, Len(str)) = sub

\* words.join(" ")
RECURSIVE JoinWords(_)
JoinWords(words) ==
    IF words = <<>> THEN <<>>
    ELSE IF Len(words) = 1 THEN words[1]
    ELSE words[1] \o <<" ">> \o JoinWords(Tail(words))

\* locationData: its keys in source order, and the entry of each (the
\* coordinates in whole degrees).
locationKeys ==
    <<<<"p", "a", "r", "i", "s">>,
      <<"l", "o", "n", "d", "r", "e", "s">>,
      <<"n", "e", "w", " ", "y", "o", "r", "k">>,
      <<"t", "o", "k", "y", "o">>,
      <<"r", "o", "m", "e">>,
      <<"t", "u", "n", "i", "s", "i", "e">>,
      <<"m", "a", "r", "o", "c">>,
      <<"b", "a", "r", "c", "e", "l", "o", "n", "e">>,
      <<"b", "e", "r", "l", "i", "n">>,
      <<"a", "m", "s", "t", "e", "r", "d", "a", "m">>,
      <<"v", "e", "n", "i", "s", "e">>,
      <<"b", "a", "n", "g", "k", "o", "k">>,
      <<"s", "y", "d", "n", "e", "y">>,
      <<"r", "i", "o", " ", "d", "e", " ", "j", "a", "n", "e", "i", "r", "o">>,
      <<"l", "e", " ", "c", "a", "i", "r", "e">>,
      <<"i", "s", "t", "a", "n", "b", "u", "l">>,
      <<"d", "u", "b", "a", "i">>,
      <<"s", "i", "n", "g", "a", "p", "o", "u", "r">>,
      <<"h", "a", "w", "a", "i", "i">>,
      <<"m", "a", "l", "d", "i", "v", "e", "s">>,
      <<"a", "l", "p", "e", "s">>>>
locationNames ==
    <<"Paris", "Londres", "New York", "Tokyo", "Rome", "Tunisie", "Maroc", "Barcelone", "Berlin", "Amsterdam", "Venise", "Bangkok", "Sydney", "Rio de Janeiro", "Le Caire", "Istanbul", "Dubaï", "Singapour", "Hawaii", "Maldives", "Alpes">>
locationCoordinates ==
    <<<<2, 48>>, <<0, 51>>, <<0 - 74, 40>>, <<139, 35>>, <<12, 41>>, <<9, 33>>, <<0 - 7, 31>>, <<2, 41>>, <<13, 52>>, <<4, 52>>, <<12, 45>>, <<100, 13>>, <<151, 0 - 33>>, <<0 - 43, 0 - 22>>, <<31, 30>>, <<28, 41>>, <<55, 25>>, <<103, 1>>, <<0 - 157, 21>>, <<73, 3>>, <<8, 46>>>>
locationData(i) == [name |-> locationNames[i], coordinates |-> locationCoordinates[i]]

\* detectPredefinedLocation: the entry of the first key, in the order of
\* Object.entries(locationData), that the lower-cased text includes.
RECURSIVE DetectPredefinedLast(_, _)
DetectPredefinedLast(lowercaseText, i) ==
    IF i < 1 THEN NullLocation
    ELSE IF Includes(lowercaseText, locationKeys[i]) THEN locationData(i)
    ELSE DetectPredefinedLast(lowercaseText, i - 1)
RECURSIVE DetectPredefinedFrom(_, _)
DetectPredefinedFrom(lowercaseText, i) ==
    IF i > Len(locationKeys) THEN NullLocation
    ELSE IF Includes(lowercaseText, locationKeys[i]) THEN locationData(i)
    ELSE DetectPredefinedFrom(lowercaseText, i + 1)
detectPredefinedLocationLastMatch(text) ==
    DetectPredefinedLast(LowerCase(text), Len(locationKeys))
detectPredefinedLocation(text) == DetectPredefinedFrom(LowerCase(text), 1)

\* extractLocationNames: the runs of words that start with an upper-case
\* character, the first word of the text and a word after a full stop left out.
StartsUpper(word) == word[1] = ToUpperCase(word[1])
RECURSIVE ExtractFrom(_, _, _, _)
ExtractFrom(words, i, currentPhrase, potentialLocations) ==
    IF i > Len(words)
    THEN IF currentPhrase # <<>>
         THEN Append(potentialLocations, JoinWords(currentPhrase))
         ELSE potentialLocations
    ELSE IF words[i] = <<>> \/ (i = 1 /\ StartsUpper(words[i]))
         THEN ExtractFrom(words, i + 1, currentPhrase, potentialLocations)
    ELSE IF StartsUpper(words[i]) /\ (i = 1 \/ ~EndsWith(words[i - 1], <<".">>))
         THEN ExtractFrom(words, i + 1, Append(currentPhrase, words[i]), potentialLocations)
    ELSE IF currentPhrase # <<>>
         THEN ExtractFrom(words, i + 1, <<>>,
                          Append(potentialLocations, JoinWords(currentPhrase)))
    ELSE ExtractFrom(words, i + 1, currentPhrase, potentialLocations)
extractLocationNames(words) == ExtractFrom(words, 1, <<>>, <<>>)

\* The words a text is made of, and the texts.
MaxWords == 4
Words ==
    {<<"j", "e">>,
     <<"L", "y", "o", "n">>,
     <<"O", "s", "l", "o", ".">>,
     <<"R", "o", "m", "e">>,
     <<"P", "A", "R", "I", "S">>}
Texts == UNION {[1..n -> Words] : n \in 1..MaxWords}

\* ---------------------------------------- the geocode route (/api/geocode)
\* `${n}` of a whole number: its decimal digits
Abs(n) == IF n < 0 THEN 0 - n ELSE n
RECURSIVE Digits(_)
Digits(n) == IF n < 10 THEN <<n>> ELSE Append(Digits(n \div 10), n % 10)
\* the phrases error.message.includes looks for, when `${n}` holds them
NumberPhrases(n) == IF Includes(Digits(Abs(n)), <<4, 2, 9>>) THEN {"429"} ELSE {}

\* What makeRequestWithRetry(MAX_RETRIES) ends with: an error thrown, or the
\* parsed data with no result or with a first result at position (lon, lat).
Longitudes == {2, 200, 429}
Latitudes == {48, 0 - 95}
GeoUpstreams ==
    {[kind |-> "throw", message |-> m, lon |-> 0, lat |-> 0] :
        m \in {{"Too Many Requests"}, {"API error", "500"},
               {"Failed to parse response as JSON"}, {"fetch failed"}}}
    \cup {[kind |-> k, message |-> {}, lon |-> 0, lat |-> 0] :
             k \in {"unconfigured", "noResults", "badPosition"}}
    \cup {[kind |-> "result", message |-> {}, lon |-> lon, lat |-> lat] :
             lon \in Longitudes, lat \in Latitudes}

RouteError(status, text) ==
    [status |-> status, ctype |-> "json", body |-> "data",
     marker |-> ("Too Many Requests" \in text), data |-> NoData, errorText |-> text]
RouteLocation(data) ==
    [status |-> 200, ctype |-> "json", body |-> "data", marker |-> FALSE,
     data |-> data, errorText |-> {}]

\* POST of src/app/api/geocode/route.ts: the response it sends
GeocodeRoutePost(up) ==
    CASE up.kind = "unconfigured" -> RouteError(500, {"Configuration error"})
      [] up.kind = "throw" ->
            IF IsRateLimitError(up.message)
            THEN RouteError(429, TOO_MANY_REQUESTS)
            ELSE RouteError(500, up.message)
      [] up.kind = "noResults" -> RouteLocation(NoData)
      [] up.kind = "badPosition" ->
            RouteError(500, {"Invalid position data in geocoding result"})
      [] OTHER ->
            IF ~validateCoordinates(up.lon, up.lat)
            THEN RouteError(400, {"Invalid coordinates"}
                                    \cup NumberPhrases(up.lon) \cup NumberPhrases(up.lat))
            ELSE RouteLocation([hasLocation |-> TRUE, hasCoords |-> TRUE,
                                coordinates |-> <<up.lon, up.lat>>])

\* The responses one fetch of geocodeLocation can end with: those of the
\* route, a network failure, and 200 responses of another content type
\* (a proxy's).
DetectResponses ==
    {GeocodeRoutePost(up) : up \in GeoUpstreams}
    \cup {resp \in GeocodeResponses : resp.status \in {0, 200} /\ resp.ctype # "json"}

\* The response tells of rate limiting / of out-of-range coordinates.
SaysRateLimited(resp) == resp.status = 429 \/ resp.marker
OutOfRange(resp) ==
    \/ resp.status = 400 /\ "Invalid coordinates" \in resp.errorText
    \/ /\ resp.status = 200 /\ resp.body = "data" /\ resp.data.hasCoords
       /\ ~validateCoordinates(resp.data.coordinates[1], resp.data.coordinates[2])

\* ------------------------------------------- detectAndGeocodeLocation
\* The test of the catch blocks of detectAndGeocodeLocation: rethrow?
DetectCatchSwallows(err) == FALSE
DetectCatch(err) == IsRateLimitError(err)

\* The call ends; dQueue keeps the names not yet done with.
DetectDone(out) ==
    /\ dpc' = "done"
    /\ dResult' = out
    /\ UNCHANGED dQueue

\* The call up to its first geocodeLocation: the predefined location of the
\* text, or the names to try, the full text last.
DetectCalled ==
    /\ dpc = "start"
    /\ LET text == JoinWords(dText)
           predefinedLocation == detectPredefinedLocation(text)
       IN  IF predefinedLocation # NullLocation
           THEN DetectDone(ReturnLocation(predefinedLocation))
           ELSE /\ dpc' = "query"
                /\ dQueue' = extractLocationNames(dText) \o <<text>>
                /\ UNCHANGED dResult
    /\ UNCHANGED <<now, callVars, homeVars, mapVars, postVars, chainVars, dText, dRetries,
                   dRequests, dRateLimited, dThrown, dLastInvalid, dLastAct>>

\* geocodeLocation(name) up to its fetch (the rate limiting wait left out).
GeocodeCalled ==
    /\ dpc = "query"
    /\ LET predefinedLocation == detectPredefinedLocation(Head(dQueue))
       IN  IF predefinedLocation # NullLocation
           THEN /\ DetectDone(ReturnLocation(predefinedLocation))
                /\ UNCHANGED <<dRetries, dRequests>>
           ELSE /\ dpc' = "fetch"
                /\ dRetries' = GEO_MAX_RETRIES
                /\ dRequests' = dRequests + 1
                /\ UNCHANGED <<dQueue, dResult>>
    /\ UNCHANGED <<now, callVars, homeVars, mapVars, postVars, chainVars, dText,
                   dRateLimited, dThrown, dLastInvalid, dLastAct>>

\* The name at the head of the queue gave no location: the next name, or
\* null after the full text.
DetectNextSkipsToText ==
    IF Len(dQueue) = 1
    THEN DetectDone(ReturnLocation(NullLocation))
    ELSE /\ dpc' = "query"
         /\ dQueue' = <<dQueue[Len(dQueue)]>>
         /\ UNCHANGED dResult
DetectNext ==
    IF Len(dQueue) = 1
    THEN DetectDone(ReturnLocation(NullLocation))
    ELSE /\ dpc' = "query"
         /\ dQueue' = Tail(dQueue)
         /\ UNCHANGED dResult

\* The fetch ends with resp: geocodeLocation retries, returns or throws, and
\* detectAndGeocodeLocation goes on from there.
GeocodeSettled ==
    /\ dpc = "fetch"
    /\ \E resp \in DetectResponses :
          LET out == GeocodeOutcome(resp, dRetries)
          IN  /\ dRateLimited' = (dRateLimited \/ SaysRateLimited(resp))
              /\ dLastInvalid' = OutOfRange(resp)
              /\ dLastAct' = IF out.act # "return" THEN out.act
                             ELSE IF out.location = NullLocation THEN "null"
                             ELSE "location"
              /\ dThrown' = (dThrown \/ out.act = "throw")
              /\ CASE out.act = "retry" ->
                        /\ dRetries' = NextRetries(dRetries)
                        /\ dRequests' = dRequests + 1
                        /\ UNCHANGED <<dpc, dQueue, dResult>>
                   [] out.act = "throw" ->
                        /\ IF DetectCatch(out.error)
                           THEN DetectDone(Throw(out.error))
                           ELSE DetectNext
                        /\ UNCHANGED <<dRetries, dRequests>>
                   [] OTHER ->
                        /\ IF out.location # NullLocation
                           THEN DetectDone(ReturnLocation(out.location))
                           ELSE DetectNext
                        /\ UNCHANGED <<dRetries, dRequests>>
    /\ UNCHANGED <<now, callVars, homeVars, mapVars, postVars, chainVars, dText>>

DetectInit ==
    /\ dText \in Texts
    /\ dpc = "start"
    /\ dQueue = <<>>
    /\ dRetries = 0
    /\ dRequests = 0
    /\ dResult = NoResult
    /\ dRateLimited = FALSE
    /\ dThrown = FALSE
    /\ dLastInvalid = FALSE
    /\ dLastAct = "none"

DetectNextStep ==
    \/ DetectCalled
    \/ GeocodeCalled
    \/ GeocodeSettled

DetectSpecInit ==
    now = StartTime /\ HomeInit /\ CallsIdle /\ MapIdle /\ PostIdle /\ ChainIdle /\ DetectInit
DetectSpec == DetectSpecInit /\ [][DetectNextStep]_vars

\* ----------------------------------------------------------------- C11
\* C11: for a text that holds a key of the gazetteer, in any case,
\* detectAndGeocodeLocation returns the entry of the first such key in the
\* table's order, wherever the names stand in the text, and sends no request.
IncludesIgnoringCase(str, sub) ==
    \E i \in 0..(Len(str) - Len(sub)) :
        \A j \in 1..Len(sub) : ToLowerCase(str[i + j]) = ToLowerCase(sub[j])
KeysHeld(words) ==
    {i \in 1..Len(locationKeys) : IncludesIgnoringCase(JoinWords(words), locationKeys[i])}
C11_GazetteerFirstMatch ==
    (dpc = "done" /\ KeysHeld(dText) # {}) =>
        /\ dRequests = 0
        /\ \E i \in KeysHeld(dText) :
              /\ \A k \in KeysHeld(dText) : i <= k
              /\ dResult = ReturnLocation(locationData(i))
\* "Rome" stands before "PARIS" in the text and after it in the table.
C11_Witness ==
    /\ dpc = "done" /\ Len(dText) >= 2
    /\ dText[1] = <<"R", "o", "m", "e">>
    /\ dText[2] = <<"P", "A", "R", "I", "S">>
    /\ dResult.location.name = "Paris"

\* ----------------------------------------------------------------- C12
\* C12: when a geocodeLocation call of the pipeline throws (a rate limiting
\* failure, the only kind it throws), detectAndGeocodeLocation ends at once
\* by throwing that error: the names left, the full text included, are not
\* sent.
C12_RateLimitAborts ==
    dThrown =>
        /\ dpc = "done"
        /\ dResult.act = "throw"
        /\ IsRateLimitError(dResult.error)
\* The first of two names was rate limited on all three tries; the second
\* name and the full text were left unsent.
C12_Witness ==
    /\ dThrown /\ dpc = "done" /\ Len(dQueue) = 3
    /\ dRequests = 3 /\ dLastAct = "throw"

\* ----------------------------------------------------------------- C13
\* C13: when no response was rate limited, detectAndGeocodeLocation ends by
\* returning (a location or null) and not by throwing.
C13_NullUnlessRateLimited ==
    (dpc = "done" /\ ~dRateLimited) => dResult.act = "return"

\* ----------------------------------------------------------------- C14
\* C14: a location returned has its longitude in [-180, 180] and its
\* latitude in [-90, 90], and a response that came of a result with
\* coordinates out of range (and said nothing of rate limiting) is taken as
\* no match: it never makes geocodeLocation throw.
C14_OutOfRangeIsNoMatch ==
    /\ (dResult.act = "return" /\ dResult.location # NullLocation) =>
          validateCoordinates(dResult.location.coordinates[1],
                              dResult.location.coordinates[2])
    /\ (dLastInvalid /\ ~dRateLimited) => dLastAct \in {"retry", "null"}

\* ================================================================
\* The map panel: Home (src/app/page.tsx lines 393-397), Map (lines
\* 438-776) and MapFallback (src/components/map-fallback.tsx).  Every
\* setHasError(true) of Map comes with onError(), which sets useMapFallback:
\* at the next render Map is unmounted and MapFallback mounted.
\* ================================================================
MaxLocations == 3
\* defaultLocation (Paris) and the coordinates a new location can have
DefaultCoordinates == <<2, 48>>
MapLocations == {<<2, 48>>, <<12, 41>>, <<200, 48>>}
\* MIN_REQUEST_INTERVAL of Map (its throttle on lastRequestTimeRef)
MAP_MIN_REQUEST_INTERVAL == 2000
\* The clock of the map panel: its step, and the time after which it stops
MapQuantum == MAP_MIN_REQUEST_INTERVAL \div 2
MapMaxTime == 5000

\* The coordinate checks of Map (lines 460-467, 548-555) and of MapFallback
\* (lines 23-29)
MapValidCoordinates(loc) ==
    ~(loc[1] < -180 \/ loc[1] > 180 \/ loc[2] < -90 \/ loc[2] > 90)
FallbackChecksNothing(loc) == TRUE
FallbackValidCoordinates(loc) ==
    loc[1] >= -180 /\ loc[1] <= 180 /\ loc[2] >= -90 /\ loc[2] <= 90

\* What a request can end with while the location is shown.
Outcomes(good) == IF good THEN {"ok"} ELSE {"ok", "429", "failed"}

\* An invocation of generateStaticMap or initializeMap for the id-th
\* location: asleep in the throttle until wake, or (NoTimer) awaiting its fetch.
Invocation(id, wake) == [id |-> id, wake |-> wake]
Sleeping(fetches) == {r \in fetches : r.wake # NoTimer}
InFlight(fetches) == {r \in fetches : r.wake = NoTimer}

\* The throttle of Map (lines 475-485, 559-569): the time the invocation
\* sleeps until, NoTimer when it goes on at once.
MapThrottle(last) ==
    IF now - last < MAP_MIN_REQUEST_INTERVAL
    THEN now + (MAP_MIN_REQUEST_INTERVAL - (now - last))
    ELSE NoTimer

\* A request leaves for /api/static-map.
StaticRequestSent ==
    /\ staticAt' = now
    /\ staticGap' = IF staticAt = Never THEN staticGap ELSE Min(staticGap, now - staticAt)

\* MapFallback's effect for the id-th location loc (fetchMapUrl up to its
\* await): no throttle, and what it awaited before stays awaited.
FetchMapUrl(loc, id, requests) ==
    IF FallbackValidCoordinates(loc)
    THEN /\ fallbackFetch' = fallbackFetch \cup {id}
         /\ staticRequests' = requests + 1
         /\ StaticRequestSent
         /\ UNCHANGED imageError
    ELSE /\ staticRequests' = requests
         /\ imageError' = TRUE
         /\ UNCHANGED <<fallbackFetch, staticAt, staticGap>>

\* onError() called at the given site of Map: Home sets useMapFallback; Map
\* is unmounted (its live map disposed; what its fetches answer changes
\* nothing any more, while an invocation asleep in generateStaticMap still
\* sends its request) and MapFallback is mounted with its initial state and
\* runs its effect.
OnError(loc, id, requests, site) ==
    /\ useMapFallback' = TRUE
    /\ onErrorSite' = site
    /\ staticFetch' = Sleeping(staticFetch)
    /\ authFetch' = {}
    /\ mapInstance' = FALSE
    /\ mapUrl' = ""
    /\ UNCHANGED mapUrlFor
    /\ IF FallbackValidCoordinates(loc)
       THEN /\ fallbackFetch' = {id}
            /\ staticRequests' = requests + 1
            /\ imageError' = FALSE
            /\ StaticRequestSent
       ELSE /\ fallbackFetch' = {}
            /\ staticRequests' = requests
            /\ imageError' = TRUE
            /\ UNCHANGED <<staticAt, staticGap>>

\* Map's two effects for the id-th location loc, each up to its first
\* await: generateStaticMap (lines 453-518), then the initialization (lines
\* 521-714), whose cleanup has disposed the live map.  While Map is mounted
\* the script has not failed and hasError is false.
MapEffects(loc, id) ==
    IF ~MapValidCoordinates(loc)
    THEN /\ OnError(loc, id, 0, "coordinates")
         /\ UNCHANGED lastRequestTimeRef
    ELSE LET wake == MapThrottle(lastRequestTimeRef)
             last == IF wake = NoTimer THEN now ELSE lastRequestTimeRef
             authWake == MapThrottle(last)
         IN  /\ staticFetch' = staticFetch \cup {Invocation(id, wake)}
             /\ staticRequests' = IF wake = NoTimer THEN 1 ELSE 0
             /\ IF wake = NoTimer
                THEN StaticRequestSent
                ELSE UNCHANGED <<staticAt, staticGap>>
             /\ authFetch' = IF scriptStatus = "ready"
                             THEN authFetch \cup {Invocation(id, authWake)}
                             ELSE authFetch
             /\ lastRequestTimeRef' = IF scriptStatus = "ready" /\ authWake = NoTimer
                                      THEN now ELSE last
             /\ mapInstance' = FALSE
             /\ UNCHANGED <<useMapFallback, imageError, mapUrl, mapUrlFor,
                            fallbackFetch, onErrorSite>>

\* setCurrentLocation(loc): the mounted component's effects run for it.
SetCurrentLocation ==
    /\ locationsSet < MaxLocations
    /\ \E loc \in MapLocations, good \in BOOLEAN :
          /\ currentLocation' = loc
          /\ healthy' = good
          /\ IF useMapFallback
             THEN /\ FetchMapUrl(loc, locationsSet + 1, 0)
                  /\ UNCHANGED <<useMapFallback, staticFetch, authFetch,
                                 mapInstance, mapUrl, mapUrlFor, onErrorSite,
                                 lastRequestTimeRef>>
             ELSE MapEffects(loc, locationsSet + 1)
    /\ locationsSet' = locationsSet + 1
    /\ liveCreated' = FALSE
    /\ firstPartyFailed' = FALSE
    /\ thirdPartyFailed' = FALSE
    /\ UNCHANGED <<now, callVars, homeVars, detVars, postVars, chainVars, scriptStatus,
                   fallbackFailed>>

\* The SDK script loads or fails (useScript): Map's initialization effect
\* runs again.
ScriptSettles ==
    /\ scriptStatus = "loading"
    /\ \E out \in Outcomes(healthy) :
          /\ scriptStatus' = IF out = "ok" THEN "ready" ELSE "error"
          /\ IF useMapFallback
             THEN UNCHANGED <<useMapFallback, staticFetch, authFetch, mapInstance,
                              imageError, mapUrl, mapUrlFor, fallbackFetch,
                              staticRequests, onErrorSite, lastRequestTimeRef,
                              staticAt, staticGap>>
             ELSE IF out = "ok"
                  THEN LET wake == MapThrottle(lastRequestTimeRef)
                       IN  /\ authFetch' = authFetch \cup {Invocation(locationsSet, wake)}
                           /\ lastRequestTimeRef' = IF wake = NoTimer THEN now
                                                    ELSE lastRequestTimeRef
                           /\ UNCHANGED <<useMapFallback, staticFetch, mapInstance,
                                          imageError, mapUrl, mapUrlFor, fallbackFetch,
                                          staticRequests, onErrorSite, staticAt,
                                          staticGap>>
                  ELSE /\ OnError(currentLocation, locationsSet, staticRequests, "script")
                       /\ UNCHANGED lastRequestTimeRef
    /\ UNCHANGED <<now, callVars, homeVars, detVars, postVars, chainVars, currentLocation,
                   healthy, locationsSet, liveCreated, firstPartyFailed,
                   thirdPartyFailed, fallbackFailed>>

\* generateStaticMap's throttle sleep ends (lines 485-488): the timestamp is
\* taken and the request leaves, also when Map was unmounted meanwhile.
StaticMapWakes ==
    /\ \E r \in Sleeping(staticFetch) :
          /\ r.wake <= now
          /\ staticFetch' = IF useMapFallback
                            THEN staticFetch \ {r}
                            ELSE (staticFetch \ {r}) \cup {Invocation(r.id, NoTimer)}
          /\ staticRequests' = IF r.id = locationsSet THEN staticRequests + 1
                               ELSE staticRequests
    /\ lastRequestTimeRef' = now
    /\ StaticRequestSent
    /\ UNCHANGED <<now, callVars, homeVars, detVars, postVars, chainVars, useMapFallback,
                   currentLocation, healthy, locationsSet, scriptStatus, authFetch,
                   mapInstance, imageError, mapUrl, mapUrlFor, fallbackFetch,
                   liveCreated, firstPartyFailed, thirdPartyFailed, onErrorSite,
                   fallbackFailed>>

\* initializeMap's throttle sleep ends (lines 569-583): the timestamp is
\* taken, a live map still there is disposed, /api/map-auth is fetched.
MapAuthWakes ==
    /\ \E r \in Sleeping(authFetch) :
          /\ r.wake <= now
          /\ authFetch' = (authFetch \ {r}) \cup {Invocation(r.id, NoTimer)}
    /\ lastRequestTimeRef' = now
    /\ mapInstance' = FALSE
    /\ UNCHANGED <<now, callVars, homeVars, detVars, postVars, chainVars, useMapFallback,
                   currentLocation, healthy, locationsSet, scriptStatus, staticFetch,
                   imageError, mapUrl, mapUrlFor, fallbackFetch, liveCreated,
                   staticRequests, firstPartyFailed, thirdPartyFailed, onErrorSite,
                   fallbackFailed, staticAt, staticGap>>

\* Map.generateStaticMap's fetch ends: the URL is kept, or hasError and
\* onError() (line 495 on 429, line 513 on any other failure).
StaticMapSettles ==
    /\ ~useMapFallback
    /\ \E r \in InFlight(staticFetch), out \in Outcomes(healthy) :
          IF out = "ok"
          THEN /\ staticFetch' = staticFetch \ {r}
               /\ UNCHANGED <<useMapFallback, authFetch, mapInstance, imageError,
                              mapUrl, mapUrlFor, fallbackFetch, staticRequests,
                              onErrorSite, staticAt, staticGap>>
          ELSE OnError(currentLocation, locationsSet, staticRequests,
                       IF out = "429" THEN "rateLimited" ELSE "staticFailed")
    /\ UNCHANGED <<now, callVars, homeVars, detVars, postVars, chainVars, currentLocation,
                   healthy, locationsSet, scriptStatus, liveCreated, firstPartyFailed,
                   thirdPartyFailed, lastRequestTimeRef, fallbackFailed>>

\* Map.initializeMap's fetch of /api/map-auth ends: new atlas.Map(...), or
\* the catch block's setHasError(true) and onError() (line 697).
MapAuthSettles ==
    /\ \E r \in InFlight(authFetch), out \in Outcomes(healthy) :
          IF out = "ok"
          THEN /\ authFetch' = authFetch \ {r}
               /\ mapInstance' = TRUE
               /\ liveCreated' = (liveCreated \/ r.id = locationsSet)
               /\ UNCHANGED <<useMapFallback, staticFetch, imageError, mapUrl,
                              mapUrlFor, fallbackFetch, staticRequests, onErrorSite,
                              staticAt, staticGap>>
          ELSE /\ OnError(currentLocation, locationsSet, staticRequests, "initializeMap")
               /\ UNCHANGED liveCreated
    /\ UNCHANGED <<now, callVars, homeVars, detVars, postVars, chainVars, currentLocation,
                   healthy, locationsSet, scriptStatus, firstPartyFailed, thirdPartyFailed,
                   lastRequestTimeRef, fallbackFailed>>

\* The live map's "error" event (lines 635-675).
MapErrorEvent ==
    /\ mapInstance
    /\ ~healthy
    /\ OnError(currentLocation, locationsSet, staticRequests, "mapError")
    /\ UNCHANGED <<now, callVars, homeVars, detVars, postVars, chainVars, currentLocation,
                   healthy, locationsSet, scriptStatus, liveCreated, firstPartyFailed,
                   thirdPartyFailed, lastRequestTimeRef, fallbackFailed>>

\* The URL MapFallback keeps for what /api/static-map answered (lines 40-63)
FallbackUrlThirdParty(out) == "osm"
FallbackUrl(out) == IF out = "ok" THEN "azure" ELSE "osm"

\* One of MapFallback.fetchMapUrl's fetches ends: the first-party URL, or
\* the third-party one on 429 and on any failure, each built for the
\* location of that invocation; setMapUrl is not held back for an earlier
\* location's answer.
FallbackStaticSettles ==
    /\ \E r \in fallbackFetch, out \in Outcomes(healthy) :
          /\ mapUrl' = FallbackUrl(out)
          /\ mapUrlFor' = r
          /\ fallbackFetch' = fallbackFetch \ {r}
          /\ fallbackFailed' = IF out = "ok" THEN fallbackFailed
                               ELSE fallbackFailed \cup {r}
          /\ firstPartyFailed' = (firstPartyFailed \/ (out # "ok" /\ r = locationsSet))
    /\ UNCHANGED <<now, callVars, homeVars, detVars, postVars, chainVars, useMapFallback,
                   currentLocation, healthy, locationsSet, scriptStatus, staticFetch,
                   authFetch, mapInstance, imageError, liveCreated,
                   staticRequests, thirdPartyFailed, onErrorSite, lastRequestTimeRef,
                   staticAt, staticGap>>

\* The image of MapFallback fails to load (onError, lines 99-102).
FallbackImageFails ==
    /\ useMapFallback
    /\ mapUrl # ""
    /\ fallbackFetch = {}
    /\ ~imageError
    /\ ~healthy
    /\ imageError' = TRUE
    /\ firstPartyFailed' = (firstPartyFailed \/ mapUrl = "azure")
    /\ thirdPartyFailed' = (thirdPartyFailed \/ mapUrl = "osm")
    /\ UNCHANGED <<now, callVars, homeVars, detVars, postVars, chainVars, useMapFallback,
                   currentLocation, healthy, locationsSet, scriptStatus, staticFetch,
                   authFetch, mapInstance, mapUrl, mapUrlFor, fallbackFetch, liveCreated,
                   staticRequests, onErrorSite, lastRequestTimeRef, fallbackFailed,
                   staticAt, staticGap>>

\* Time passes on the map panel, up to the next throttle sleep's end.
MapTick ==
    /\ now < MapMaxTime
    /\ \A r \in Sleeping(staticFetch) \cup Sleeping(authFetch) : r.wake > now
    /\ now' = now + MapQuantum
    /\ UNCHANGED <<callVars, homeVars, extVars>>

\* What the panel shows.
MapTier ==
    IF useMapFallback
    THEN IF imageError THEN "PLACEHOLDER"
         ELSE IF mapUrl = "azure" THEN "FIRST_PARTY_STATIC"
         ELSE IF mapUrl = "osm" THEN "THIRD_PARTY_STATIC"
         ELSE "LOADING"
    ELSE IF mapInstance THEN "LIVE_MAP" ELSE "LOADING"

\* Nothing is awaited.
MapSettled ==
    /\ scriptStatus # "loading"
    /\ staticFetch = {} /\ authFetch = {} /\ fallbackFetch = {}

\* Home mounts with defaultLocation: Map's effects run with the script
\* loading, and generateStaticMap's request leaves at once.
MapInit ==
    /\ useMapFallback = FALSE
    /\ currentLocation = DefaultCoordinates
    /\ healthy \in BOOLEAN
    /\ locationsSet = 0
    /\ scriptStatus = "loading"
    /\ staticFetch = {Invocation(0, NoTimer)}
    /\ authFetch = {}
    /\ mapInstance = FALSE
    /\ imageError = FALSE
    /\ mapUrl = ""
    /\ mapUrlFor = 0
    /\ fallbackFetch = {}
    /\ liveCreated = FALSE
    /\ staticRequests = 1
    /\ firstPartyFailed = FALSE
    /\ thirdPartyFailed = FALSE
    /\ lastRequestTimeRef = StartTime
    /\ onErrorSite = "none"
    /\ fallbackFailed = {}
    /\ staticAt = StartTime
    /\ staticGap = MAP_MIN_REQUEST_INTERVAL

MapNext ==
    \/ SetCurrentLocation
    \/ ScriptSettles
    \/ StaticMapWakes
    \/ MapAuthWakes
    \/ StaticMapSettles
    \/ MapAuthSettles
    \/ MapErrorEvent
    \/ FallbackStaticSettles
    \/ FallbackImageFails
    \/ MapTick

MapSpecInit ==
    now = StartTime /\ HomeInit /\ CallsIdle /\ DetectIdle /\ PostIdle /\ ChainIdle /\ MapInit
MapSpec == MapSpecInit /\ [][MapNext]_vars

\* ----------------------------------------------------------------- C15
\* C15: while the location shown has coordinates out of range, no live map
\* is created for it, no request goes to /api/static-map for it, and once
\* nothing is awaited the panel shows the placeholder.
C15_InvalidLocationPlaceholder ==
    ~MapValidCoordinates(currentLocation) =>
        /\ ~liveCreated
        /\ ~mapInstance
        /\ staticRequests = 0
        /\ MapSettled => MapTier = "PLACEHOLDER"
\* The SDK was ready when the first new location came, with coordinates out
\* of range: the panel has settled on the placeholder.
C15_Witness ==
    /\ ~MapValidCoordinates(currentLocation)
    /\ MapSettled /\ scriptStatus = "ready" /\ locationsSet = 1
    /\ MapTier = "PLACEHOLDER"

\* ----------------------------------------------------------------- C17
\* C17: the tier is chosen anew for each location: with the SDK loaded, a
\* location with valid coordinates shown while the services answer well is
\* rendered as a live map once nothing is awaited, whatever was shown before.
C17_LiveMapAgain ==
    (MapSettled /\ scriptStatus = "ready" /\ healthy
        /\ MapValidCoordinates(currentLocation))
    => MapTier = "LIVE_MAP"

\* ----------------------------------------------------------------- C18
\* C18: for a location with valid coordinates MapFallback shows the
\* placeholder only after the first-party static image and then the
\* third-party one have both failed for that location.
C18_PlaceholderAfterBothFailed ==
    (useMapFallback /\ FallbackValidCoordinates(currentLocation)
        /\ MapTier = "PLACEHOLDER")
    => (firstPartyFailed /\ thirdPartyFailed)

\* ================================================================
\* The chat route: POST of /api/chat (src/unnamed/part_001, lines 51-183)
\* ================================================================
MaxHistory == 6
\* slice(-5): the number of messages kept
RecentCount == 5
Roles == {"system", "user", "assistant"}

RECURSIVE SeqsUpTo(_, _)
SeqsUpTo(S, n) ==
    IF n = 0 THEN {<<>>}
    ELSE LET shorter == SeqsUpTo(S, n - 1)
         IN  shorter \cup {Append(q, x) : q \in {r \in shorter : Len(r) = n - 1}, x \in S}

\* The role of each message of the request body
Histories == SeqsUpTo(Roles, MaxHistory)

HasSystem(messages) == \E i \in 1..Len(messages) : messages[i] = "system"

\* messages.some((m) => m.role === "system") ? messages : [systemMessage, ...messages]
MessagesWithSystem(messages) ==
    IF HasSystem(messages) THEN messages ELSE <<"system">> \o messages

SliceFirst(messages, n) == SubSeq(messages, 1, Min(Len(messages), n))
\* Array.prototype.slice(-n)
SliceLast(messages, n) ==
    IF Len(messages) <= n THEN messages
    ELSE SubSeq(messages, Len(messages) - n + 1, Len(messages))

RecentMessages(messages) == SliceLast(MessagesWithSystem(messages), RecentCount)

\* Replies and bodies of the route that sendMessage's model does not draw
ROUTE_INVALID == {"Je suis desole", "reponse invalide"}
ROUTE_UNEXPECTED == {"Je suis desole", "format inattendu"}
ROUTE_ERROR == {"Je suis desole", "une erreur s'est produite", "reessayer dans quelques instants"}
CONFIGURATION_ERROR == {"Service configuration error"}

\* What fetchWithRetry ends with: it throws, or returns a response whose
\* body is JSON or not, with choices[0].message.content a string or not.
UpstreamOutcomes ==
    {[threw |-> TRUE, status |-> 0, json |-> FALSE, shape |-> "none"]}
    \cup [threw : {FALSE}, status : {200, 429, 500}, json : BOOLEAN,
          shape : {"content", "empty", "no choices", "no content"}]

\* NextResponse.json(body, {status})
PostAnswer(status, text, isReply) ==
    /\ ppc' = "answered"
    /\ postStatus' = status
    /\ postReply' = text
    /\ postHasReply' = isReply

\* The reply to a response of the upstream service (lines 94-173)
ReplyTo(out) ==
    IF out.status # 200
    THEN IF out.json /\ out.status = 429 THEN ROUTE_TOO_MANY ELSE ROUTE_DIFFICULTIES
    ELSE IF ~out.json THEN ROUTE_UNREADABLE
    ELSE IF out.shape = "no choices" THEN ROUTE_INVALID
    ELSE IF out.shape = "no content" THEN ROUTE_UNEXPECTED
    ELSE IF out.shape = "empty" THEN EMPTY_REPLY
    ELSE GENUINE_REPLY

\* POST from request.json() settling to the call of fetchWithRetry
PostReceived ==
    /\ ppc = "received"
    /\ IF ~bodyParses
       THEN /\ PostAnswer(200, ROUTE_ERROR, TRUE)
            /\ UNCHANGED recentMessages
       ELSE IF ~configured
       THEN /\ PostAnswer(500, CONFIGURATION_ERROR, FALSE)
            /\ UNCHANGED recentMessages
       ELSE /\ recentMessages' = RecentMessages(history)
            /\ ppc' = "upstream"
            /\ UNCHANGED <<postStatus, postReply, postHasReply>>
    /\ UNCHANGED <<now, callVars, homeVars, detVars, mapVars, chainVars, history, bodyParses,
                   configured>>

\* POST from fetchWithRetry settling to the answer
PostUpstreamSettles ==
    /\ ppc = "upstream"
    /\ \E out \in UpstreamOutcomes :
          IF out.threw
          THEN PostAnswer(200, ROUTE_ERROR, TRUE)
          ELSE PostAnswer(200, ReplyTo(out), TRUE)
    /\ UNCHANGED <<now, callVars, homeVars, detVars, mapVars, chainVars, history, bodyParses,
                   configured, recentMessages>>

\* A request has arrived.
PostInit ==
    /\ history \in Histories
    /\ bodyParses \in BOOLEAN
    /\ configured \in BOOLEAN
    /\ ppc = "received"
    /\ recentMessages = <<>>
    /\ postStatus = 0
    /\ postReply = {}
    /\ postHasReply = FALSE

PostNext ==
    \/ PostReceived
    \/ PostUpstreamSettles

PostSpecInit ==
    now = StartTime /\ HomeInit /\ CallsIdle /\ DetectIdle /\ MapIdle /\ ChainIdle /\ PostInit
PostSpec == PostSpecInit /\ [][PostNext]_vars

\* ----------------------------------------------------------------- C16
\* C16: whenever the history holds no system message, or holds one as its
\* first entry, the message list sent upstream starts with a system message,
\* also for histories of 5 or more messages.
C16_SystemMessageFirst ==
    (ppc \in {"upstream", "answered"} /\ recentMessages # <<>>
        /\ (~HasSystem(history) \/ history[1] = "system"))
    => recentMessages[1] = "system"

\* ----------------------------------------------------------------- C19
\* C19: every answer of the chat route has status 200 and a body with a
\* string reply, also when the configuration is missing.
C19_AlwaysOkWithReply ==
    ppc = "answered" => (postStatus = 200 /\ postHasReply)

\* ----------------------------------------------------------------- C20
\* The calls the handler awaits end (C2), and the handler then runs on.
HomeFairSpec ==
    HomeSpec /\ WF_vars(InputGeocoded) /\ WF_vars(ChatReplied) /\ WF_vars(ReplyGeocoded)

\* What a turn has appended: the user message alone until the assistant
\* message is appended, both once the turn has ended (nothing before the
\* first turn).
TurnShape ==
    /\ hpc \in {"geo1", "chat"} => turnMessages = <<"user">>
    /\ hpc = "geo2" => turnMessages = <<"user", "assistant">>
    /\ hpc = "idle" => turnMessages \in {<<>>, <<"user", "assistant">>}
    /\ (hpc = "idle" /\ turnMessages = <<>>) => answer = {}

\* C20: every turn of handleSendMessage ends, and appends to the conversation
\* exactly one user message followed by exactly one assistant message,
\* whatever geocoding and the chat return and whichever cooldown is open.
C20_TurnAppendsUserThenAssistant ==
    /\ []TurnShape
    /\ (hpc # "idle") ~> (hpc = "idle" /\ turnMessages = <<"user", "assistant">>)

\* A turn has ended in the outer catch block (empty reply) after its call of
\* detectAndGeocodeLocation was rate limited.
C20_Witness ==
    /\ hpc = "idle"
    /\ turnMessages = <<"user", "assistant">>
    /\ answer = GENERIC_ERROR
    /\ geoOutcome = "rateLimited"
    /\ isMapRateLimited

\* ----------------------------------------------------------------- C21
\* C21: between turns the page's `error` state is null (no error banner),
\* whatever geocoding and the chat returned, an empty reply included.
C21_NoErrorBanner == hpc = "idle" => error = {}

\* ----------------------------------------------------------------- C22
\* C22: geocodeLocation never goes on to a retry after a response with a
\* 4xx status other than 429: such a response ends the call.
C22_BadRequestNotRetried ==
    \A p \in Callers :
        (fn = "geocodeLocation" /\ pc[p] = "backoff") => backoffFrom[p] # 400

\* ----------------------------------------------------------------- C23
\* C23: sendMessage returns the transient-error reply after a 5xx response
\* or a network failure only once its retries are exhausted.
C23_TransientAfterRetries ==
    \A p \in Callers :
        (fn = "sendMessage" /\ pc[p] = "done" /\ lastResp[p].status \in {0, 500}
            /\ result[p] = ReturnReply(TRANSIENT_ERROR))
        => retries[p] = 0

\* ----------------------------------------------------------------- C24
\* C24: neither sendMessage nor geocodeLocation goes on to a retry after a
\* 2xx response, whatever its body.
C24_MalformedSuccessNotRetried ==
    \A p \in Callers :
        (fn \in {"sendMessage", "geocodeLocation"} /\ pc[p] = "backoff")
        => backoffFrom[p] # 200

\* ----------------------------------------------------------------- C25
\* C25: whatever keys are pressed and buttons clicked, at most one call of
\* handleSendMessage is in progress, and it is in progress exactly while
\* the page shows isLoading; the handler awaits one call at a time, so at
\* most one request to /api/chat or /api/geocode is in flight.
C25_OneTurnAtATime ==
    /\ turns <= 1
    /\ (hpc # "idle") <=> (turns = 1)
    /\ (hpc # "idle") <=> isLoading

\* The 2 seconds after the press are over while the turn still awaits
\* sendMessage: only isLoading keeps a second turn from starting.
C25_Witness ==
    /\ hpc = "chat"
    /\ isLoading
    /\ ~isInputDisabled
    /\ turns = 1

\* ----------------------------------------------------------------- C26
\* C26: the map cooldown opens only on the second of two consecutive
\* rate-limit signals of detectAndGeocodeLocation: when it opens, the call
\* before the one that opens it had ended rate limited too.
C26_MapThresholdTwo ==
    [][(~isMapRateLimited /\ isMapRateLimited') => geoOutcome = "rateLimited"]_vars

\* ----------------------------------------------------------------- C27
\* C27: a transient-error reply, a malformed-response reply and a genuine
\* reply of sendMessage are not counted as rate-limit signals: after such a
\* reply the counter of consecutive signals is 0.
C27_OnlyOverloadedCounts ==
    reply \in {TRANSIENT_ERROR, MALFORMED_RESPONSE, GENUINE_REPLY}
    => consecutiveErrors = 0

\* ----------------------------------------------------------------- C28
\* The names still to geocode are the end of the list of candidates in
\* their order of appearance followed by the whole text.
RestOfPlan ==
    LET plan == extractLocationNames(dText) \o <<JoinWords(dText)>>
    IN  dQueue # <<>> =>
            \E k \in 0..(Len(plan) - 1) : dQueue = SubSeq(plan, k + 1, Len(plan))

\* The pipeline passes to the next name only when geocodeLocation has
\* returned null for the name at the head, and ends with the location when
\* geocodeLocation has returned one.
OneNameAtATime ==
    /\ (dQueue # <<>> /\ dQueue' # dQueue) =>
          (dQueue' = Tail(dQueue) /\ dpc = "fetch" /\ dLastAct' = "null")
    /\ (dpc = "fetch" /\ dLastAct' = "location") =>
          (dpc' = "done" /\ dResult'.act = "return" /\ dResult'.location # NullLocation
           /\ dQueue' = dQueue)
    /\ dpc = "done" => dRequests' = dRequests

\* C28: with no gazetteer hit, detectAndGeocodeLocation geocodes the
\* candidates in their order of appearance, stops at the first that yields a
\* location, and sends the whole text only after every candidate yielded none.
C28_CandidatesInOrderThenText ==
    /\ []RestOfPlan
    /\ [][OneNameAtATime]_vars

\* Two candidates have yielded none and the whole text is with the geocoder.
C28_Witness ==
    /\ dpc = "fetch"
    /\ Len(extractLocationNames(dText)) = 2
    /\ dQueue = <<JoinWords(dText)>>
    /\ dLastAct = "null"

\* ================================================================
\* extractLocationNames on its own (src/lib/geocoding.ts, lines 197-230)
\* ================================================================
MaxTokens == 3
\* Tokens of text.split(/\s+/): lower case, capitalised, ending a sentence,
\* starting with a digit or with punctuation.
ExtractWords ==
    {<<"j", "e">>,
     <<"L", "y", "o", "n">>,
     <<"O", "s", "l", "o", ".">>,
     <<"Z", "u", "t", "!">>,
     <<"3", "e">>,
     <<"(", "R", "o", "m", "e", ")">>}
\* The token lists of the texts: split gives an empty first token for a text
\* with leading whitespace.
ExtractTexts ==
    LET plain == UNION {[1..n -> ExtractWords] : n \in 1..MaxTokens}
    IN  plain \cup {<<<<>>>> \o t : t \in plain}

\* const potentialLocations = extractLocationNames(text)
ExtractApplied ==
    /\ dpc = "start"
    /\ dpc' = "extracted"
    /\ dQueue' = extractLocationNames(dText)
    /\ UNCHANGED <<now, callVars, homeVars, mapVars, postVars, chainVars, dText, dRetries,
                   dRequests, dResult, dRateLimited, dThrown, dLastInvalid, dLastAct>>

ExtractInit ==
    /\ dText \in ExtractTexts
    /\ dpc = "start"
    /\ dQueue = <<>>
    /\ dRetries = 0
    /\ dRequests = 0
    /\ dResult = NoResult
    /\ dRateLimited = FALSE
    /\ dThrown = FALSE
    /\ dLastInvalid = FALSE
    /\ dLastAct = "none"

ExtractSpecInit ==
    now = StartTime /\ HomeInit /\ CallsIdle /\ MapIdle /\ PostIdle /\ ChainIdle /\ ExtractInit
ExtractSpec == ExtractSpecInit /\ [][ExtractApplied]_vars

\* ----------------------------------------------------------------- C29
\* A token that can be part of a candidate: it begins with an upper-case
\* letter, is not the first token of the text, and does not follow a token
\* that ends in '.', '!' or '?'.
IsUpperCaseLetter(c) == ToLowerCase(c) # c
EndsSentence(word) == word # <<>> /\ word[Len(word)] \in {".", "!", "?"}
FirstToken(words) == IF words[1] = <<>> THEN 2 ELSE 1
CandidateToken(words, i) ==
    /\ words[i] # <<>>
    /\ i # FirstToken(words)
    /\ IsUpperCaseLetter(words[i][1])
    /\ ~(i > 1 /\ EndsSentence(words[i - 1]))

\* The maximal runs of such tokens, in order of appearance
RECURSIVE RunsFrom(_, _, _, _)
RunsFrom(words, i, run, runs) ==
    LET closed == IF run # <<>> THEN Append(runs, JoinWords(run)) ELSE runs
    IN  IF i > Len(words) THEN closed
        ELSE IF CandidateToken(words, i)
             THEN RunsFrom(words, i + 1, Append(run, words[i]), runs)
        ELSE RunsFrom(words, i + 1, <<>>, closed)

\* C29: extractLocationNames returns exactly the maximal runs of tokens that
\* begin with an upper-case letter, are not the first token of the text and
\* do not follow a token ending in '.', '!' or '?'.
C29_ExactlyCapitalisedRuns ==
    dpc = "extracted" => dQueue = RunsFrom(dText, 1, <<>>, <<>>)

\* ----------------------------------------------------------------- C30
\* The place of a tier on the degradation path (0 while nothing is shown yet)
TierRank(tier) ==
    CASE tier = "LIVE_MAP" -> 1
      [] tier = "FIRST_PARTY_STATIC" -> 2
      [] tier = "THIRD_PARTY_STATIC" -> 3
      [] tier = "PLACEHOLDER" -> 4
      [] OTHER -> 0

\* C30: while one location is shown, a step that changes the tier shown
\* changes it to a later tier of LIVE_MAP, FIRST_PARTY_STATIC,
\* THIRD_PARTY_STATIC, PLACEHOLDER, never to an earlier one.
C30_TierOnlyForward ==
    [][(locationsSet' = locationsSet /\ TierRank(MapTier') # 0)
          => TierRank(MapTier') >= TierRank(MapTier)]_vars

\* ----------------------------------------------------------------- C37
\* q is made of the last entries of s, in the order they have in s.
IsSuffix(q, s) ==
    /\ Len(q) <= Len(s)
    /\ \A i \in 1..Len(q) : q[i] = s[Len(s) - Len(q) + i]

\* C37: the messages the chat route sends upstream are at most 5, and they
\* are the most recent entries of the history (with the system prompt
\* prepended when it held none), as many as there are up to 5, in their order.
C37_LastFiveInOrder ==
    (ppc \in {"upstream", "answered"} /\ bodyParses /\ configured) =>
        /\ Len(recentMessages) <= 5
        /\ Len(recentMessages) = Min(5, Len(MessagesWithSystem(history)))
        /\ IsSuffix(recentMessages, MessagesWithSystem(history))
C37_Witness ==
    /\ ppc = "upstream"
    /\ Len(MessagesWithSystem(history)) > 5
    /\ Len(recentMessages) = 5
    /\ recentMessages # SubSeq(MessagesWithSystem(history), 1, 5)

\* ----------------------------------------------------------------- C40
\* The step in which sendMessage returns and the handler reads its reply
ChatSettles == hpc = "chat" /\ hpc' # "chat"
\* The step in which detectAndGeocodeLocation ends and the handler reads
\* its result or its error
GeocodeSettles == hpc \in {"geo1", "geo2"} /\ hpc' # hpc

UpstreamGeocodeResponses ==
    {[status |-> 0, body |-> "none", text |-> {"fetch failed"}, lon |-> 0, lat |-> 0]}
    \cup {[status |-> s, body |-> "json", text |-> t, lon |-> 0, lat |-> 0] :
             s \in {400, 429, 500}, t \in {{}, {"rate limit"}}}
    \cup {[status |-> 200, body |-> b, text |-> {}, lon |-> 0, lat |-> 0] :
             b \in {"unparseable", "noResults", "badPosition"}}
    \cup {[status |-> 200, body |-> "result", text |-> {}, lon |-> lon, lat |-> lat] :
             lon \in Longitudes, lat \in Latitudes}

\* makeRequestWithRetry's try block (lines 50-122)
MakeRequestTry(resp, r) ==
    IF resp.status = 0 THEN Throw(resp.text)
    ELSE IF resp.status = 429 /\ r > 0 THEN Retry
    ELSE IF ~Ok(resp.status)
         THEN IF resp.status = 429 THEN Throw({"Too Many Requests"})
              ELSE Throw({"API error:", StatusText(resp.status)} \cup resp.text)
    ELSE IF resp.body = "unparseable" THEN Throw({"Failed to parse response as JSON"})
    ELSE ReturnResponse(200)

\* makeRequestWithRetry's catch block (lines 123-137)
MakeRequestCatch(err, r) ==
    IF r > 0 /\ IsRateLimitError(err) THEN Retry ELSE Throw(err)

\* What makeRequestWithRetry(MAX_RETRIES) ended with, for POST: the error
\* thrown or the data of the last response
MadeRequest(resp, made) ==
    IF made.act = "throw"
    THEN [kind |-> "throw", message |-> made.error, lon |-> 0, lat |-> 0]
    ELSE [kind |-> resp.body, message |-> {}, lon |-> resp.lon, lat |-> resp.lat]

\* makeRequestWithRetry on one response: it fetches again ("retry"), or it
\* ends and POST answers (lines 141-221)
PostGeocodeOutcome(resp, r) ==
    LET t == MakeRequestTry(resp, r)
        made == IF t.act = "throw" THEN MakeRequestCatch(t.error, r) ELSE t
    IN  IF made.act = "retry" THEN Retry
        ELSE ReturnResponse(GeocodeRoutePost(MadeRequest(resp, made)).status)
\* The response POST sends when makeRequestWithRetry ends on resp
PostGeocodeAnswer(resp, r) ==
    LET t == MakeRequestTry(resp, r)
        made == IF t.act = "throw" THEN MakeRequestCatch(t.error, r) ELSE t
    IN  GeocodeRoutePost(MadeRequest(resp, made))

\* POST with a query and the API key set: the rate limiting of lines 36-46,
\* then makeRequestWithRetry(MAX_RETRIES).
PostGeocode(p) == fn = "makeRequestWithRetry" /\ Call(p)

\* POST with a body that is not JSON, without query or without API key: it
\* answers 400 or 500 before the rate limiting.
PostGeocodeRejected(p) ==
    /\ fn = "makeRequestWithRetry"
    /\ pc[p] \in {"idle", "done"}
    /\ now < MaxTime
    /\ pc' = [pc EXCEPT ![p] = "done"]
    /\ retries' = [retries EXCEPT ![p] = GEOROUTE_MAX_RETRIES]
    /\ delay' = [delay EXCEPT ![p] = GEOROUTE_MIN_REQUEST_INTERVAL * 2]
    /\ \E st \in {400, 500} : result' = [result EXCEPT ![p] = ReturnResponse(st)]
    /\ attempts' = [attempts EXCEPT ![p] = 0]
    /\ waits' = [waits EXCEPT ![p] = <<>>]
    /\ lastResp' = [lastResp EXCEPT ![p] = NoDigest]
    /\ only429' = [only429 EXCEPT ![p] = TRUE]
    /\ backoffFrom' = [backoffFrom EXCEPT ![p] = NoStatus]
    /\ UNCHANGED <<now, fn, lastRequestTime, timer, fetchAt, minGap, homeVars, extVars>>

MakeRequestResponse(p) ==
    /\ fn = "makeRequestWithRetry"
    /\ \E resp \in UpstreamGeocodeResponses :
          Settle(p, [NoDigest EXCEPT !.status = resp.status],
                 PostGeocodeOutcome(resp, retries[p]))

\* The retry's setTimeout fires: makeRequestWithRetry(retries - 1) fetches at
\* once; the rate limiting is not run again and lastRequestTime is not written.
MakeRequestRetryWake(p) ==
    /\ fn = "makeRequestWithRetry"
    /\ pc[p] = "backoff"
    /\ now = timer[p]
    /\ retries' = [retries EXCEPT ![p] = NextRetries(@)]
    /\ delay' = [delay EXCEPT ![p] = NextDelay(fn, @)]
    /\ pc' = [pc EXCEPT ![p] = "fetch"]
    /\ timer' = [timer EXCEPT ![p] = NoTimer]
    /\ attempts' = [attempts EXCEPT ![p] = @ + 1]
    /\ fetchAt' = now
    /\ minGap' = IF fetchAt = Never THEN minGap ELSE Min(minGap, now - fetchAt)
    /\ backoffFrom' = [backoffFrom EXCEPT ![p] = NoStatus]
    /\ UNCHANGED <<now, fn, lastRequestTime, result, waits, lastResp, only429,
                   homeVars, extVars>>

RouteInit ==
    /\ now = StartTime
    /\ HomeInit
    /\ ExtIdle
    /\ fn = "makeRequestWithRetry"
    /\ lastRequestTime = 0
    /\ pc = [p \in Callers |-> "idle"]
    /\ retries = [p \in Callers |-> 0]
    /\ delay = [p \in Callers |-> 0]
    /\ timer = [p \in Callers |-> NoTimer]
    /\ result = [p \in Callers |-> NoResult]
    /\ attempts = [p \in Callers |-> 0]
    /\ waits = [p \in Callers |-> <<>>]
    /\ lastResp = [p \in Callers |-> NoDigest]
    /\ only429 = [p \in Callers |-> TRUE]
    /\ fetchAt = Never
    /\ minGap = GEOROUTE_MIN_REQUEST_INTERVAL
    /\ backoffFrom = [p \in Callers |-> NoStatus]

RouteNext ==
    \/ \E p \in Callers : PostGeocode(p)
    \/ \E p \in Callers : PostGeocodeRejected(p)
    \/ \E p \in Callers : ThrottleWake(p)
    \/ \E p \in Callers : MakeRequestResponse(p)
    \/ \E p \in Callers : MakeRequestRetryWake(p)
    \/ Advance

RouteSpec == RouteInit /\ [][RouteNext]_vars

\* ================================================================
\* One call of geocodeLocation and the requests it sends through the route.
\* Only the requests are followed: the sleeps of the rate limiting and of the
\* retries are part of the step that follows them.
\* ================================================================
\* geocodeLocation(locationName): the name holds a key of the gazetteer and
\* the call returns at once, or the call runs to its fetch of /api/geocode.
GeocodeLocationStarts ==
    /\ gpc = "idle"
    /\ \/ /\ gpc' = "done"
          /\ UNCHANGED <<gRetries, gRequests>>
       \/ /\ gpc' = "post"
          /\ gRetries' = GEO_MAX_RETRIES
          /\ gRequests' = 1
    /\ UNCHANGED <<now, callVars, homeVars, detVars, mapVars, postVars,
                   gRouteRetries, gRouteAttempts, gUpstream, gAnswer>>

\* POST of the route: without API key it answers 500; otherwise it runs to
\* the fetch of makeRequestWithRetry(MAX_RETRIES).
GeocodeRouteReceives ==
    /\ gpc = "post"
    /\ \/ /\ gpc' = "answered"
          /\ gAnswer' = GeocodeRoutePost([kind |-> "unconfigured", message |-> {},
                                          lon |-> 0, lat |-> 0])
          /\ gRouteAttempts' = 0
          /\ UNCHANGED <<gRouteRetries, gUpstream>>
       \/ /\ gpc' = "upstream"
          /\ gRouteRetries' = GEOROUTE_MAX_RETRIES
          /\ gRouteAttempts' = 1
          /\ gUpstream' = gUpstream + 1
          /\ UNCHANGED gAnswer
    /\ UNCHANGED <<now, callVars, homeVars, detVars, mapVars, postVars,
                   gRetries, gRequests>>

\* The upstream fetch ends: makeRequestWithRetry fetches again, or POST answers.
GeocodeUpstreamSettles ==
    /\ gpc = "upstream"
    /\ \E resp \in UpstreamGeocodeResponses :
          LET out == PostGeocodeOutcome(resp, gRouteRetries)
          IN  IF out.act = "retry"
              THEN /\ gRouteRetries' = NextRetries(gRouteRetries)
                   /\ gRouteAttempts' = gRouteAttempts + 1
                   /\ gUpstream' = gUpstream + 1
                   /\ UNCHANGED <<gpc, gAnswer>>
              ELSE /\ gpc' = "answered"
                   /\ gAnswer' = PostGeocodeAnswer(resp, gRouteRetries)
                   /\ UNCHANGED <<gRouteRetries, gRouteAttempts, gUpstream>>
    /\ UNCHANGED <<now, callVars, homeVars, detVars, mapVars, postVars,
                   gRetries, gRequests>>

\* geocodeLocation reads the route's answer: it calls itself with
\* retries - 1, which fetches /api/geocode again, or it ends.
GeocodeLocationSettles ==
    /\ gpc = "answered"
    /\ LET out == GeocodeOutcome(gAnswer, gRetries)
       IN  IF out.act = "retry"
           THEN /\ gpc' = "post"
                /\ gRetries' = NextRetries(gRetries)
                /\ gRequests' = gRequests + 1
           ELSE /\ gpc' = "done"
                /\ UNCHANGED <<gRetries, gRequests>>
    /\ UNCHANGED <<now, callVars, homeVars, detVars, mapVars, postVars,
                   gRouteRetries, gRouteAttempts, gUpstream, gAnswer>>

ChainNext ==
    \/ GeocodeLocationStarts
    \/ GeocodeRouteReceives
    \/ GeocodeUpstreamSettles
    \/ GeocodeLocationSettles

ChainSpecInit ==
    now = StartTime /\ HomeInit /\ CallsIdle /\ DetectIdle /\ MapIdle /\ PostIdle
    /\ ChainIdle
ChainSpec == ChainSpecInit /\ [][ChainNext]_vars

\* ----------------------------------------------------------------- C34
\* C34: any two fetches of the upstream geocoding service by the route,
\* first attempts and retries of any requests, are at least 1000 ms apart.
C34_UpstreamSpacing ==
    fn = "makeRequestWithRetry" => minGap >= 1000

\* ----------------------------------------------------------------- C35
\* C35: in makeRequestWithRetry each retry of a request waits twice as
\* long as the retry before it.
C35_RetryDelayDoubles ==
    \A p \in Callers :
        fn = "makeRequestWithRetry" =>
            \A k \in 2..Len(waits[p]) : waits[p][k] = 2 * waits[p][k - 1]

\* ----------------------------------------------------------------- C39
\* C39: one call of geocodeLocation sends at most 3 requests to
\* /api/geocode, the route fetches upstream at most 3 times for each of
\* them, and so at most 9 upstream fetches are made for the call.
C39_AtMostNineUpstream ==
    /\ gRequests <= 3
    /\ gRouteAttempts <= 3
    /\ gUpstream <= 9
\* A call that ended after 3 requests of 3 upstream fetches each.
C39_Witness ==
    gpc = "done" /\ gRequests = 3 /\ gUpstream = 9

\* ----------------------------------------------------------------- C36
\* A timeout set by the page runs its callback: the input is enabled again,
\* or a cooldown ends.
TimerFires ==
    \/ isInputDisabled /\ ~isInputDisabled'
    \/ rateLimitTimer # NoTimer /\ now = rateLimitTimer /\ rateLimitTimer' = NoTimer
    \/ chatRateLimitTimer # NoTimer /\ now = chatRateLimitTimer
          /\ chatRateLimitTimer' = NoTimer

\* C36: once Home is unmounted, no timeout set by the page runs its callback.
C36_NoTimerAfterUnmount ==
    [][~mounted => ~TimerFires]_vars

\* ----------------------------------------------------------------- C31
\* The places of Map that call onError() for a cause the degradation rule
\* names: the coordinate check, the script's failure, a 429 of
\* /api/static-map, the catch block of initializeMap, the live map's
\* "error" event.
NamedCauses == {"coordinates", "script", "rateLimited", "initializeMap", "mapError"}

\* C31: the page leaves the live map (Map calls onError() and useMapFallback
\* becomes true) only because the SDK failed to load or to initialise, the
\* map services answered 429, or the coordinates are out of range.
C31_LeavesLiveMapForNamedCause ==
    useMapFallback => onErrorSite \in NamedCauses

\* ----------------------------------------------------------------- C32
\* C32: the third-party image MapFallback shows was built for a location
\* whose own request to /api/static-map failed, answered non-OK or came
\* without a url.
C32_ThirdPartyAfterFirstPartyFailed ==
    (useMapFallback /\ mapUrl = "osm") => mapUrlFor \in fallbackFailed
\* The second location's request failed while the first one's had been
\* answered well: the third-party image is shown for the second.
C32_Witness ==
    /\ useMapFallback /\ mapUrl = "osm" /\ ~imageError
    /\ mapUrlFor = 2 /\ fallbackFailed = {2} /\ fallbackFetch = {}

\* ----------------------------------------------------------------- C33
\* C33: any two requests to /api/static-map sent by Map.generateStaticMap
\* and MapFallback.fetchMapUrl leave at least 2000 ms apart.
C33_StaticRequestsSpaced ==
    staticGap >= MAP_MIN_REQUEST_INTERVAL

\* ----------------------------------------------------------------- C38
\* C38: once nothing is awaited, the image MapFallback shows was built for
\* the latest location, whatever the order of the answers.
C38_UrlOfLatestLocation ==
    (useMapFallback /\ MapSettled /\ mapUrl # "" /\ ~imageError)
    => mapUrlFor = locationsSet

====
